---- MODULE Spec2Model ----
(***************************************************************************)
(* File storage and synchronization engine of noture: FileService and     *)
(* WorkspaceService over one PostgreSQL session (main.go hands the same   *)
(* pgx.Conn to db.New and to NewFileService), with the persisted queries  *)
(* and the schema they run against.                                       *)
(***************************************************************************)
EXTENDS Integers, Sequences, FiniteSets, TLC

(* ------------------------------ bounds -------------------------------- *)

\* storage_limit_bytes of the one workspace, scaled down from the tier value
StorageLimit == 100
\* UploadFile calls that open an audit row in one behaviour
MaxUploads == 2
\* DeleteFile calls that begin a transaction in one behaviour of calls run
\* one at a time
MaxDeletes == 2
\* DeleteFile calls that begin a transaction in one behaviour of interleaved
\* calls
MaxConcDeletes == 1
\* statements of one call that fail for a reason other than the data (busy
\* connection, cancelled context, server error)
MaxFaults == 1
\* rows of the workspaces table in one behaviour of CreateWorkspace calls
MaxWorkspaceRows == 5
\* ticks of the clock in one behaviour
MaxTime == 4
\* the 10 minutes that a device-auth session lives, in ticks of the clock
DeviceCodeLifetime == 2
\* polls of the device-auth endpoint in one behaviour
MaxPolls == 4

(* ------------------------------ values -------------------------------- *)

Procs == {1, 2}
Users == {"owner", "other"}
\* the principals that create workspaces: the two above, a premium and an
\* enterprise account, and a caller whose tier is none of the three
Accounts == Users \cup {"pro", "corp", "guest"}
\* the userTier argument of CreateWorkspace: users.tier from the auth context,
\* or any other UserTier string that a caller of the service passes
UserTier(user) ==
    CASE user = "pro" -> "premium"
      [] user = "corp" -> "enterprise"
      [] user = "guest" -> "invalid"
      [] OTHER -> "free"
\* gen_random_uuid() for the rows of workspaces, in the order of creation
WorkspaceNames == <<"w1", "w2", "w3", "w4", "w5", "w6", "w7", "w8">>
WorkspaceIDs == {"w1", "w0"}
Paths == {"a.md", "b.md"}
\* file paths handed to DetectFileFormat: those of its test and others with
\* upper-case, doubled, missing and directory-level extensions
FormatPaths ==
    {"test.md", "document.markdown", "notes.org", "readme.txt", "README",
     "data.json", "TEST.MD", "Notes.Org", "a.Markdown", "a.md.bak",
     "dir.md/readme", "x.mdx", ".org", "org", "page.HTML"}
\* the bytes of the strings in use
PathBytes(filePath) ==
    CASE filePath = "a.md" -> <<97, 46, 109, 100>>
      [] filePath = "b.md" -> <<98, 46, 109, 100>>
      [] filePath = "test.md" -> <<116, 101, 115, 116, 46, 109, 100>>
      [] filePath = "document.markdown" -> <<100, 111, 99, 117, 109, 101, 110, 116, 46, 109, 97, 114, 107, 100, 111, 119, 110>>
      [] filePath = "notes.org" -> <<110, 111, 116, 101, 115, 46, 111, 114, 103>>
      [] filePath = "readme.txt" -> <<114, 101, 97, 100, 109, 101, 46, 116, 120, 116>>
      [] filePath = "README" -> <<82, 69, 65, 68, 77, 69>>
      [] filePath = "data.json" -> <<100, 97, 116, 97, 46, 106, 115, 111, 110>>
      [] filePath = "TEST.MD" -> <<84, 69, 83, 84, 46, 77, 68>>
      [] filePath = "Notes.Org" -> <<78, 111, 116, 101, 115, 46, 79, 114, 103>>
      [] filePath = "a.Markdown" -> <<97, 46, 77, 97, 114, 107, 100, 111, 119, 110>>
      [] filePath = "a.md.bak" -> <<97, 46, 109, 100, 46, 98, 97, 107>>
      [] filePath = "dir.md/readme" -> <<100, 105, 114, 46, 109, 100, 47, 114, 101, 97, 100, 109, 101>>
      [] filePath = "x.mdx" -> <<120, 46, 109, 100, 120>>
      [] filePath = ".org" -> <<46, 111, 114, 103>>
      [] filePath = "org" -> <<111, 114, 103>>
      [] filePath = "page.HTML" -> <<112, 97, 103, 101, 46, 72, 84, 77, 76>>
ContentLens == {5, 20, 90}
\* the bytes of n characters of text: words of two letters, one space apart
Bytes(n) == [i \in 1..n |-> IF i % 3 = 0 THEN 32 ELSE 120]
Contents == {Bytes(n) : n \in ContentLens}
FileOps == {"upload", "delete", "get", "content", "list"}
WorkspaceOps == {"wsget", "wsstorage"}
Ops == FileOps \cup WorkspaceOps
Faults == {"none", "client", "server"}

\* sha256.Sum256 rendered with %x: a digest that differs when the content does
Sha256Hex(content) == <<"sha256", content>>

NoFile == [id |-> 0, content_hash |-> <<>>, content |-> <<>>, size_bytes |-> 0]
NoData == <<>>

(* ------------------------------ state --------------------------------- *)

VARIABLES
    db,        \* the session's view of the tables (uncommitted writes included)
    txSnap,    \* the tables as of BEGIN while a transaction block is open
    txStatus,  \* the session's transaction status: idle, open or aborted
    nextId,    \* next gen_random_uuid() for a files row
    nextOp,    \* next gen_random_uuid() for a sync_operations row
    procs,     \* one record per request goroutine: position and locals
    deletes,   \* transactions begun by DeleteFile so far
    inject,    \* whether statements may fail for a reason other than the data
    last,      \* the call that returned last, when it is one the properties follow
    disableAsyncMetadataParsing,  \* the FileService field of that name
    extractors,    \* the parseFileMetadata goroutines started and yet to run
    extractorErr,  \* whether a parseFileMetadata goroutine has ended in an error
    pendingAuth,   \* OAuthHandler.pendingAuth: device code -> ExpiresAt
    now,           \* time.Now(), in ticks
    nextCode,      \* index of the next result of generateRandomCode(32)
    polled,        \* the last poll of the device-auth endpoint and its answer
    api_tokens,    \* the rows of the api_tokens table
    issued,        \* the tokens that OAuth callbacks have returned, with their user
    authed         \* the last request that went through RequireAuth

vars == <<db, txSnap, txStatus, nextId, nextOp, procs, deletes, inject, last,
          disableAsyncMetadataParsing, extractors, extractorErr,
          pendingAuth, now, nextCode, polled, api_tokens, issued, authed>>

\* the variables of the authentication handlers
auth == <<pendingAuth, now, nextCode, polled, api_tokens, issued, authed>>

\* the variables of the metadata extraction
meta == <<disableAsyncMetadataParsing, extractors, extractorErr>>

\* the durable state: what a second session would read
Committed == IF txStatus = "idle" THEN db ELSE txSnap

RECURSIVE SumSizes(_, _)
SumSizes(files, ps) ==
    IF ps = {} THEN 0
    ELSE LET p == CHOOSE q \in ps : TRUE
         IN files[p].size_bytes + SumSizes(files, ps \ {p})

\* COALESCE(SUM(f.size_bytes), 0) of GetWorkspaceStorageUsage
ActualStorageUsed(d) == SumSizes(d.files, Paths)

FileExists(d, path) == d.files[path].id # 0

InitDB ==
    [workspaces |-> [w \in {"w1"} |->
                        [user_id |-> "owner",
                         storage_limit_bytes |-> StorageLimit,
                         storage_used_bytes |-> 0]],
     files |-> [p \in Paths |-> NoFile],
     file_metadata |-> {},
     file_versions |-> {},
     sync_operations |-> {}]

Idle ==
    [pc |-> "idle", op |-> "none", ws |-> "w1", path |-> "a.md",
     content |-> <<>>, user |-> "owner",
     used |-> 0, limit |-> 0, curSize |-> 0, newUsage |-> 0,
     tier |-> "free", existing |-> 0,
     opId |-> 0, fileId |-> 0, file |-> NoFile, txClosed |-> TRUE,
     versionErr |-> FALSE, committed |-> FALSE,
     ret |-> "none", data |-> NoData,
     pre |-> InitDB, queries |-> 0, faults |-> 0, began |-> FALSE]

NoCall == [kind |-> "none", path |-> "a.md", content |-> <<>>]

NoPoll == [code |-> "", answer |-> "none", at |-> 0, n |-> 0]

NoRequest == [header |-> <<>>, status |-> 0, body |-> "none", user_id |-> "none"]

\* NewOAuthHandler makes the map empty; the tables hold no token
AuthInit ==
    /\ pendingAuth = [c \in {} |-> 0]
    /\ now = 0
    /\ nextCode = 1
    /\ polled = NoPoll
    /\ api_tokens = {}
    /\ issued = {}
    /\ authed = NoRequest

Init ==
    /\ db = InitDB
    /\ txSnap = InitDB
    /\ txStatus = "idle"
    /\ nextId = 1
    /\ nextOp = 1
    /\ procs = [p \in Procs |-> Idle]
    /\ deletes = 0
    /\ inject = TRUE
    /\ last = NoCall
    /\ disableAsyncMetadataParsing = TRUE
    /\ extractors = {}
    /\ extractorErr = FALSE
    /\ AuthInit

(* ----------------------- the PostgreSQL session ----------------------- *)

\* A statement may fail for a reason of its own: "client" never reaches the
\* server (busy connection, cancelled context), "server" is an error reply,
\* which aborts an open transaction block.
Inject(p, f) ==
    /\ f \in Faults
    /\ (f # "none") =>
          /\ inject
          /\ procs[p].faults < MaxFaults
          /\ txStatus # "aborted"
          /\ (f = "server") => (txStatus = "open")
    /\ UNCHANGED inject

\* every statement but COMMIT and ROLLBACK fails in an aborted block
Failed(f) == f # "none" \/ txStatus = "aborted"

StatusAfter(f) == IF f = "server" /\ txStatus = "open" THEN "aborted" ELSE txStatus

\* a server error reply to a statement that violates a constraint
StatusAfterError == IF txStatus = "open" THEN "aborted" ELSE txStatus

Step(pr, f) == [pr EXCEPT !.queries = @ + 1,
                          !.faults = IF f = "none" THEN @ ELSE @ + 1]

Done(pr, ret) == [pr EXCEPT !.pc = "done", !.ret = ret]

Goto(pr, pc) == [pr EXCEPT !.pc = pc]

(* --------------------------- persisted queries ------------------------ *)

\* faulty variant: size_bytes is missing from the DO UPDATE SET list
UpsertFileRowsSizeKept(d, path, id, content, hash) ==
    [d EXCEPT !.files[path] =
        [id |-> IF FileExists(d, path) THEN d.files[path].id ELSE id,
         content_hash |-> hash,
         content |-> content,
         size_bytes |-> IF FileExists(d, path) THEN d.files[path].size_bytes
                        ELSE Len(content)]]

\* faulty variant: content_hash is missing from the DO UPDATE SET list
UpsertFileRowsHashKept(d, path, id, content, hash) ==
    [d EXCEPT !.files[path] =
        [id |-> IF FileExists(d, path) THEN d.files[path].id ELSE id,
         content_hash |-> IF FileExists(d, path) THEN d.files[path].content_hash
                          ELSE hash,
         content |-> content,
         size_bytes |-> Len(content)]]

\* INSERT ... ON CONFLICT (workspace_id, file_path) DO UPDATE: the row at the
\* path is written whole, a new row only when the path has none
UpsertFileRows(d, path, id, content, hash) ==
    [d EXCEPT !.files[path] =
        [id |-> IF FileExists(d, path) THEN d.files[path].id ELSE id,
         content_hash |-> hash,
         content |-> content,
         size_bytes |-> Len(content)]]

\* faulty variant: the value is added to the stored one, not written over it
UpdateWorkspaceStorageUsedAdded(d, ws, usage) ==
    [d EXCEPT !.workspaces[ws].storage_used_bytes = @ + usage]

\* faulty variant: the UPDATE sets storage_limit_bytes
UpdateWorkspaceStorageLimit(d, ws, usage) ==
    [d EXCEPT !.workspaces[ws].storage_limit_bytes = usage]

UpdateWorkspaceStorageUsed(d, ws, usage) ==
    [d EXCEPT !.workspaces[ws].storage_used_bytes = usage]

\* faulty variant: file_versions.file_id without ON DELETE CASCADE
DeleteFileRowsVersionsKept(d, path) ==
    [d EXCEPT !.files[path] = NoFile,
              !.file_metadata = {m \in @ : m.file_id # d.files[path].id}]

\* ON DELETE CASCADE removes the file's version and metadata rows with it
DeleteFileRows(d, path) ==
    [d EXCEPT !.files[path] = NoFile,
              !.file_versions = {v \in @ : v.file_id # d.files[path].id},
              !.file_metadata = {m \in @ : m.file_id # d.files[path].id}]

\* faulty variant: no UNIQUE(file_id, version_number), the foreign key alone
VersionInsertRejectedByKeyOnly(d, fileId, number) ==
    \A q \in Paths : d.files[q].id # fileId

\* UNIQUE(file_id, version_number) and the file_id foreign key
VersionInsertRejected(d, fileId, number) ==
    \/ \E v \in d.file_versions : v.file_id = fileId /\ v.version_number = number
    \/ \A q \in Paths : d.files[q].id # fileId

CreateFileVersionRows(d, fileId, number, content, hash) ==
    [d EXCEPT !.file_versions = @ \cup
        {[file_id |-> fileId, version_number |-> number,
          content_hash |-> hash, content |-> content]}]

CreateSyncOperationRows(d, id, ws, type, status) ==
    [d EXCEPT !.sync_operations = @ \cup
        {[id |-> id, workspace_id |-> ws, operation_type |-> type,
          status |-> status, error_message |-> ""]}]

\* faulty variant: the UPDATE has no WHERE id = $1
UpdateSyncOperationStatusAll(d, id, status, message) ==
    [d EXCEPT !.sync_operations =
        {[o EXCEPT !.status = status, !.error_message = message] : o \in @}]

UpdateSyncOperationStatus(d, id, status, message) ==
    [d EXCEPT !.sync_operations =
        {IF o.id = id THEN [o EXCEPT !.status = status, !.error_message = message]
                      ELSE o : o \in @}]

(* ------------------------- pieces of the handlers --------------------- *)

\* faulty variant: the owner comparison is left out
AuthorizeWithoutOwner(d, ws, user, failed) ==
    IF failed \/ ws \notin DOMAIN d.workspaces THEN "workspace not found"
    ELSE "ok"

\* faulty variant: the lookup error is dropped and the zero-valued row fails
\* the owner comparison
AuthorizeZeroRow(d, ws, user, failed) ==
    IF failed \/ ws \notin DOMAIN d.workspaces THEN "access denied"
    ELSE IF d.workspaces[ws].user_id # user THEN "access denied"
    ELSE "ok"

\* GetWorkspaceByID followed by the owner comparison
Authorize(d, ws, user, failed) ==
    IF failed \/ ws \notin DOMAIN d.workspaces THEN "workspace not found"
    ELSE IF d.workspaces[ws].user_id # user THEN "access denied"
    ELSE "ok"

\* var currentFileSize int64; if err == nil { currentFileSize = existingFile.SizeBytes }
CurrentFileSize(failed, row) == IF ~failed THEN row.size_bytes ELSE 0

NewStorageUsage(used, currentFileSize, contentLen) == used - currentFileSize + contentLen

\* faulty variant: the precheck never rejects
LimitNeverExceeded(newUsage, limit) == FALSE

LimitExceeded(newUsage, limit) == newUsage > limit

\* faulty variant: the size is not subtracted
DeleteNewUsageKept(used, sizeBytes) == used

DeleteNewUsage(used, sizeBytes) == used - sizeBytes

FileInfo(ws, path, row) ==
    [id |-> row.id, workspace_id |-> ws, file_path |-> path,
     content_hash |-> row.content_hash, size_bytes |-> row.size_bytes]

Replace(p, pr) == procs' = [procs EXCEPT ![p] = pr]

\* the goroutine that go s.parseFileMetadata(context.Background(), file) starts
Extractor(pr) ==
    [op |-> pr.opId, file_id |-> pr.file.id, path |-> pr.path,
     content |-> pr.file.content]

(* ------------------------------ UploadFile ---------------------------- *)

UploadGetWorkspace(p, f) ==
    /\ procs[p].pc = "U_GetWorkspaceByID"
    /\ Inject(p, f)
    /\ LET pr == Step(procs[p], f)
           a == Authorize(db, pr.ws, pr.user, Failed(f))
       IN Replace(p, IF a # "ok" THEN Done(pr, a)
                     ELSE Goto(pr, "U_GetWorkspaceStorageUsage"))
    /\ txStatus' = StatusAfter(f)
    /\ UNCHANGED <<db, txSnap, nextId, nextOp, deletes, last, meta, auth>>

UploadGetStorageUsage(p, f) ==
    /\ procs[p].pc = "U_GetWorkspaceStorageUsage"
    /\ Inject(p, f)
    /\ LET pr == Step(procs[p], f)
       IN Replace(p, IF Failed(f) THEN Done(pr, "failed to get storage usage")
                     ELSE [pr EXCEPT !.pc = "U_GetFile",
                                     !.used = db.workspaces[pr.ws].storage_used_bytes,
                                     !.limit = db.workspaces[pr.ws].storage_limit_bytes])
    /\ txStatus' = StatusAfter(f)
    /\ UNCHANGED <<db, txSnap, nextId, nextOp, deletes, last, meta, auth>>

\* faulty variant: the audit row is opened before the precheck
UploadGetFileAudited(p, f) ==
    /\ procs[p].pc = "U_GetFile"
    /\ Inject(p, f)
    /\ LET pr == Step(procs[p], f)
           cur == CurrentFileSize(Failed(f), db.files[pr.path])
           new == NewStorageUsage(pr.used, cur, Len(pr.content))
           q == [pr EXCEPT !.curSize = cur, !.newUsage = new]
       IN /\ Replace(p, IF LimitExceeded(new, pr.limit)
                        THEN Done(q, "storage limit exceeded")
                        ELSE Goto(q, "U_CreateSyncOperation"))
          /\ db' = IF LimitExceeded(new, pr.limit)
                   THEN CreateSyncOperationRows(db, 0, pr.ws, "upload", "pending")
                   ELSE db
    /\ txStatus' = StatusAfter(f)
    /\ UNCHANGED <<txSnap, nextId, nextOp, deletes, last, meta, auth>>

\* the lookup of the existing file and the quota precheck that follows it
UploadGetFile(p, f) ==
    /\ procs[p].pc = "U_GetFile"
    /\ Inject(p, f)
    /\ LET pr == Step(procs[p], f)
           cur == CurrentFileSize(Failed(f), db.files[pr.path])
           new == NewStorageUsage(pr.used, cur, Len(pr.content))
           q == [pr EXCEPT !.curSize = cur, !.newUsage = new]
       IN Replace(p, IF LimitExceeded(new, pr.limit)
                     THEN Done(q, "storage limit exceeded")
                     ELSE Goto(q, "U_CreateSyncOperation"))
    /\ txStatus' = StatusAfter(f)
    /\ UNCHANGED <<db, txSnap, nextId, nextOp, deletes, last, meta, auth>>

UploadCreateSyncOperation(p, f) ==
    /\ procs[p].pc = "U_CreateSyncOperation"
    /\ Inject(p, f)
    /\ LET pr == Step(procs[p], f)
       IN IF Failed(f)
          THEN /\ Replace(p, Done(pr, "failed to create sync operation"))
               /\ UNCHANGED <<db, nextOp>>
          ELSE /\ Replace(p, [pr EXCEPT !.pc = "U_Begin", !.opId = nextOp])
               /\ db' = CreateSyncOperationRows(db, nextOp, pr.ws, "upload", "pending")
               /\ nextOp' = nextOp + 1
    /\ txStatus' = StatusAfter(f)
    /\ UNCHANGED <<txSnap, nextId, deletes, last, meta, auth>>

\* s.conn.Begin: BEGIN inside a block that is already open only warns
UploadBegin(p, f) ==
    /\ procs[p].pc = "U_Begin"
    /\ Inject(p, f)
    /\ LET pr == Step(procs[p], f)
       IN IF Failed(f)
          THEN /\ Replace(p, Done(pr, "failed to start transaction"))
               /\ txStatus' = StatusAfter(f)
               /\ UNCHANGED txSnap
          ELSE /\ Replace(p, [pr EXCEPT !.pc = "U_UpsertFile", !.txClosed = FALSE,
                                        !.began = TRUE])
               /\ txStatus' = "open"
               /\ txSnap' = IF txStatus = "idle" THEN db ELSE txSnap
    /\ UNCHANGED <<db, nextId, nextOp, deletes, last, meta, auth>>

\* faulty variant: the metadata extraction is started with the row that
\* UpsertFile returned, before the transaction has committed
UploadUpsertFileExtracting(p, f) ==
    /\ procs[p].pc = "U_UpsertFile"
    /\ Inject(p, f)
    /\ LET pr == Step(procs[p], f)
           d == UpsertFileRows(db, pr.path, nextId, pr.content, Sha256Hex(pr.content))
           q == [pr EXCEPT !.pc = "U_UpdateWorkspaceStorageUsed",
                           !.fileId = d.files[pr.path].id,
                           !.file = d.files[pr.path]]
       IN IF Failed(f)
          THEN /\ Replace(p, [pr EXCEPT !.pc = "U_MarkFailed",
                                        !.ret = "failed to upsert file"])
               /\ UNCHANGED <<db, nextId, extractors>>
          ELSE /\ Replace(p, q)
               /\ db' = d
               /\ nextId' = IF FileExists(db, pr.path) THEN nextId ELSE nextId + 1
               /\ extractors' = IF disableAsyncMetadataParsing THEN extractors
                                ELSE extractors \cup {Extractor(q)}
    /\ txStatus' = StatusAfter(f)
    /\ UNCHANGED <<txSnap, nextOp, deletes, last, disableAsyncMetadataParsing,
                   extractorErr, auth>>

UploadUpsertFile(p, f) ==
    /\ procs[p].pc = "U_UpsertFile"
    /\ Inject(p, f)
    /\ LET pr == Step(procs[p], f)
           d == UpsertFileRows(db, pr.path, nextId, pr.content, Sha256Hex(pr.content))
       IN IF Failed(f)
          THEN /\ Replace(p, [pr EXCEPT !.pc = "U_MarkFailed",
                                        !.ret = "failed to upsert file"])
               /\ UNCHANGED <<db, nextId>>
          ELSE /\ Replace(p, [pr EXCEPT !.pc = "U_UpdateWorkspaceStorageUsed",
                                        !.fileId = d.files[pr.path].id,
                                        !.file = d.files[pr.path]])
               /\ db' = d
               /\ nextId' = IF FileExists(db, pr.path) THEN nextId ELSE nextId + 1
    /\ txStatus' = StatusAfter(f)
    /\ UNCHANGED <<txSnap, nextOp, deletes, last, meta, auth>>

\* faulty variant: the value written is the usage read plus the new size,
\* not the projected value of the precheck
UploadUpdateStorageUsedUnprojected(p, f) ==
    /\ procs[p].pc = "U_UpdateWorkspaceStorageUsed"
    /\ Inject(p, f)
    /\ LET pr == Step(procs[p], f)
       IN IF Failed(f)
          THEN /\ Replace(p, [pr EXCEPT !.pc = "U_MarkFailed",
                                        !.ret = "failed to update storage usage"])
               /\ UNCHANGED db
          ELSE /\ Replace(p, Goto(pr, "U_CreateFileVersion"))
               /\ db' = UpdateWorkspaceStorageUsed(db, pr.ws,
                                                   pr.used + Len(pr.content))
    /\ txStatus' = StatusAfter(f)
    /\ UNCHANGED <<txSnap, nextId, nextOp, deletes, last, meta, auth>>

UploadUpdateStorageUsed(p, f) ==
    /\ procs[p].pc = "U_UpdateWorkspaceStorageUsed"
    /\ Inject(p, f)
    /\ LET pr == Step(procs[p], f)
       IN IF Failed(f)
          THEN /\ Replace(p, [pr EXCEPT !.pc = "U_MarkFailed",
                                        !.ret = "failed to update storage usage"])
               /\ UNCHANGED db
          ELSE /\ Replace(p, Goto(pr, "U_CreateFileVersion"))
               /\ db' = UpdateWorkspaceStorageUsed(db, pr.ws, pr.newUsage)
    /\ txStatus' = StatusAfter(f)
    /\ UNCHANGED <<txSnap, nextId, nextOp, deletes, last, meta, auth>>

\* VersionNumber: 1 on every upload; the error is dropped by the caller
UploadCreateFileVersion(p, f) ==
    /\ procs[p].pc = "U_CreateFileVersion"
    /\ Inject(p, f)
    /\ LET pr == Step(procs[p], f)
           err == Failed(f) \/ VersionInsertRejected(db, pr.fileId, 1)
       IN /\ Replace(p, [pr EXCEPT !.pc = "U_Commit", !.versionErr = err])
          /\ IF Failed(f)
             THEN /\ txStatus' = StatusAfter(f)
                  /\ UNCHANGED db
             ELSE IF VersionInsertRejected(db, pr.fileId, 1)
             THEN /\ txStatus' = StatusAfterError
                  /\ UNCHANGED db
             ELSE /\ txStatus' = txStatus
                  /\ db' = CreateFileVersionRows(db, pr.fileId, 1, pr.content,
                                                 Sha256Hex(pr.content))
    /\ UNCHANGED <<txSnap, nextId, nextOp, deletes, last, meta, auth>>

\* faulty variant: the error of tx.Commit is not looked at
UploadCommitUnchecked(p, f) ==
    /\ procs[p].pc = "U_Commit"
    /\ Inject(p, f)
    /\ f # "server"
    /\ LET pr == [Step(procs[p], f) EXCEPT !.txClosed = TRUE]
       IN IF f # "none" \/ txStatus = "aborted"
          THEN /\ Replace(p, Goto(pr, "U_MarkSuccess"))
               /\ db' = IF txStatus = "idle" THEN db ELSE txSnap
          ELSE /\ Replace(p, [pr EXCEPT !.pc = "U_MarkSuccess", !.committed = TRUE])
               /\ UNCHANGED db
    /\ txStatus' = "idle"
    /\ UNCHANGED <<txSnap, nextId, nextOp, deletes, last, meta, auth>>

\* tx.Commit: COMMIT of an aborted block rolls back and pgx reports it as an
\* error; a COMMIT that cannot be sent ends the session's block by rollback
UploadCommit(p, f) ==
    /\ procs[p].pc = "U_Commit"
    /\ Inject(p, f)
    /\ f # "server"
    /\ LET pr == [Step(procs[p], f) EXCEPT !.txClosed = TRUE]
       IN IF f # "none" \/ txStatus = "aborted"
          THEN /\ Replace(p, [pr EXCEPT !.pc = "U_MarkFailed",
                                        !.ret = "failed to commit transaction"])
               /\ db' = IF txStatus = "idle" THEN db ELSE txSnap
          ELSE /\ Replace(p, [pr EXCEPT !.pc = "U_MarkSuccess", !.committed = TRUE])
               /\ UNCHANGED db
    /\ txStatus' = "idle"
    /\ UNCHANGED <<txSnap, nextId, nextOp, deletes, last, meta, auth>>

\* faulty variant: the error of the status update is returned to the caller
UploadMarkSuccessStrict(p, f) ==
    /\ procs[p].pc = "U_MarkSuccess"
    /\ Inject(p, f)
    /\ LET pr == Step(procs[p], f)
       IN IF Failed(f)
          THEN /\ Replace(p, Done(pr, "failed to update sync operation"))
               /\ UNCHANGED <<db, extractors>>
          ELSE /\ Replace(p, [Done(pr, "ok") EXCEPT
                                 !.data = <<FileInfo(pr.ws, pr.path, pr.file)>>])
               /\ db' = UpdateSyncOperationStatus(db, pr.opId, "success", "")
               /\ extractors' = IF disableAsyncMetadataParsing THEN extractors
                                ELSE extractors \cup {Extractor(pr)}
    /\ txStatus' = StatusAfter(f)
    /\ UNCHANGED <<txSnap, nextId, nextOp, deletes, last,
                   disableAsyncMetadataParsing, extractorErr, auth>>

\* the status update after the commit (its error is dropped), the start of the
\* metadata extraction and the projection of the row that UpsertFile returned
UploadMarkSuccess(p, f) ==
    /\ procs[p].pc = "U_MarkSuccess"
    /\ Inject(p, f)
    /\ LET pr == Step(procs[p], f)
       IN /\ Replace(p, [Done(pr, "ok") EXCEPT
                            !.data = <<FileInfo(pr.ws, pr.path, pr.file)>>])
          /\ db' = IF Failed(f) THEN db
                   ELSE UpdateSyncOperationStatus(db, pr.opId, "success", "")
          /\ extractors' = IF disableAsyncMetadataParsing THEN extractors
                           ELSE extractors \cup {Extractor(pr)}
    /\ txStatus' = StatusAfter(f)
    /\ UNCHANGED <<txSnap, nextId, nextOp, deletes, last,
                   disableAsyncMetadataParsing, extractorErr, auth>>

\* s.queries.UpdateSyncOperationStatus(..."failed"...) on the error paths: it
\* runs on the session, inside the block when the block is still open
UploadMarkFailed(p, f) ==
    /\ procs[p].pc = "U_MarkFailed"
    /\ Inject(p, f)
    /\ LET pr == Step(procs[p], f)
       IN /\ Replace(p, Goto(pr, "U_Rollback"))
          /\ db' = IF Failed(f) THEN db
                   ELSE UpdateSyncOperationStatus(db, pr.opId, "failed", pr.ret)
    /\ txStatus' = StatusAfter(f)
    /\ UNCHANGED <<txSnap, nextId, nextOp, deletes, last, meta, auth>>

\* faulty variant: the early error returns leave without the rollback
UploadRollbackMissing(p) ==
    /\ procs[p].pc = "U_Rollback"
    /\ Replace(p, [procs[p] EXCEPT !.pc = "done"])
    /\ UNCHANGED <<db, txSnap, txStatus, nextId, nextOp, deletes, inject, last, meta, auth>>

\* defer tx.Rollback(ctx): nothing once the Tx is closed by Commit
UploadRollback(p) ==
    /\ procs[p].pc = "U_Rollback"
    /\ Replace(p, [procs[p] EXCEPT !.pc = "done", !.txClosed = TRUE])
    /\ db' = IF procs[p].txClosed \/ txStatus = "idle" THEN db ELSE txSnap
    /\ txStatus' = IF procs[p].txClosed THEN txStatus ELSE "idle"
    /\ UNCHANGED <<txSnap, nextId, nextOp, deletes, inject, last, meta, auth>>

(* ------------------------------ DeleteFile ---------------------------- *)

\* the workspace row read here supplies StorageUsedBytes for the decrement
DeleteGetWorkspace(p, f) ==
    /\ procs[p].pc = "D_GetWorkspaceByID"
    /\ Inject(p, f)
    /\ LET pr == Step(procs[p], f)
           a == Authorize(db, pr.ws, pr.user, Failed(f))
       IN Replace(p, IF a # "ok" THEN Done(pr, a)
                     ELSE [pr EXCEPT !.pc = "D_GetFile",
                                     !.used = db.workspaces[pr.ws].storage_used_bytes])
    /\ txStatus' = StatusAfter(f)
    /\ UNCHANGED <<db, txSnap, nextId, nextOp, deletes, last, meta, auth>>

\* faulty variant: a missing file is a delete that has nothing to do
DeleteGetFileNoOp(p, f) ==
    /\ procs[p].pc = "D_GetFile"
    /\ Inject(p, f)
    /\ LET pr == Step(procs[p], f)
       IN Replace(p, IF Failed(f) \/ ~FileExists(db, pr.path)
                     THEN Done(pr, "ok")
                     ELSE [pr EXCEPT !.pc = "D_Begin",
                                     !.curSize = db.files[pr.path].size_bytes,
                                     !.fileId = db.files[pr.path].id])
    /\ txStatus' = StatusAfter(f)
    /\ UNCHANGED <<db, txSnap, nextId, nextOp, deletes, last, meta, auth>>

DeleteGetFile(p, f) ==
    /\ procs[p].pc = "D_GetFile"
    /\ Inject(p, f)
    /\ LET pr == Step(procs[p], f)
       IN Replace(p, IF Failed(f) \/ ~FileExists(db, pr.path)
                     THEN Done(pr, "file not found")
                     ELSE [pr EXCEPT !.pc = "D_Begin",
                                     !.curSize = db.files[pr.path].size_bytes,
                                     !.fileId = db.files[pr.path].id])
    /\ txStatus' = StatusAfter(f)
    /\ UNCHANGED <<db, txSnap, nextId, nextOp, deletes, last, meta, auth>>

DeleteBegin(p, f) ==
    /\ procs[p].pc = "D_Begin"
    /\ Inject(p, f)
    /\ LET pr == Step(procs[p], f)
       IN IF Failed(f)
          THEN /\ Replace(p, Done(pr, "failed to start transaction"))
               /\ txStatus' = StatusAfter(f)
               /\ UNCHANGED <<txSnap, deletes>>
          ELSE /\ Replace(p, [pr EXCEPT !.pc = "D_DeleteFile", !.txClosed = FALSE,
                                        !.began = TRUE])
               /\ txStatus' = "open"
               /\ txSnap' = IF txStatus = "idle" THEN db ELSE txSnap
               /\ deletes' = deletes + 1
    /\ UNCHANGED <<db, nextId, nextOp, last, meta, auth>>

DeleteFileRow(p, f) ==
    /\ procs[p].pc = "D_DeleteFile"
    /\ Inject(p, f)
    /\ LET pr == Step(procs[p], f)
       IN IF Failed(f)
          THEN /\ Replace(p, [pr EXCEPT !.pc = "D_Rollback",
                                        !.ret = "failed to delete file"])
               /\ UNCHANGED db
          ELSE /\ Replace(p, Goto(pr, "D_UpdateWorkspaceStorageUsed"))
               /\ db' = DeleteFileRows(db, pr.path)
    /\ txStatus' = StatusAfter(f)
    /\ UNCHANGED <<txSnap, nextId, nextOp, deletes, last, meta, auth>>

DeleteUpdateStorageUsed(p, f) ==
    /\ procs[p].pc = "D_UpdateWorkspaceStorageUsed"
    /\ Inject(p, f)
    /\ LET pr == Step(procs[p], f)
           new == DeleteNewUsage(pr.used, pr.curSize)
       IN IF Failed(f)
          THEN /\ Replace(p, [pr EXCEPT !.pc = "D_Rollback", !.newUsage = new,
                                        !.ret = "failed to update storage usage"])
               /\ UNCHANGED db
          ELSE /\ Replace(p, [pr EXCEPT !.pc = "D_Commit", !.newUsage = new])
               /\ db' = UpdateWorkspaceStorageUsed(db, pr.ws, new)
    /\ txStatus' = StatusAfter(f)
    /\ UNCHANGED <<txSnap, nextId, nextOp, deletes, last, meta, auth>>

\* return tx.Commit(ctx)
DeleteCommit(p, f) ==
    /\ procs[p].pc = "D_Commit"
    /\ Inject(p, f)
    /\ f # "server"
    /\ LET pr == [Step(procs[p], f) EXCEPT !.txClosed = TRUE]
       IN IF f # "none" \/ txStatus = "aborted"
          THEN /\ Replace(p, Done(pr, "failed to commit transaction"))
               /\ db' = IF txStatus = "idle" THEN db ELSE txSnap
          ELSE /\ Replace(p, Done(pr, "ok"))
               /\ UNCHANGED db
    /\ txStatus' = "idle"
    /\ UNCHANGED <<txSnap, nextId, nextOp, deletes, last, meta, auth>>

\* faulty variant: the error returns leave without the rollback
DeleteRollbackMissing(p) ==
    /\ procs[p].pc = "D_Rollback"
    /\ Replace(p, [procs[p] EXCEPT !.pc = "done"])
    /\ UNCHANGED <<db, txSnap, txStatus, nextId, nextOp, deletes, inject, last, meta, auth>>

\* defer tx.Rollback(ctx) on the error returns
DeleteRollback(p) ==
    /\ procs[p].pc = "D_Rollback"
    /\ Replace(p, [procs[p] EXCEPT !.pc = "done", !.txClosed = TRUE])
    /\ db' = IF procs[p].txClosed \/ txStatus = "idle" THEN db ELSE txSnap
    /\ txStatus' = IF procs[p].txClosed THEN txStatus ELSE "idle"
    /\ UNCHANGED <<txSnap, nextId, nextOp, deletes, inject, last, meta, auth>>

(* -------------------- GetFile, GetFileContent, ListFiles -------------- *)

RECURSIVE BytesBefore(_, _)
\* the order of two strings compared byte by byte
BytesBefore(a, b) ==
    IF a = <<>> THEN b # <<>>
    ELSE IF b = <<>> THEN FALSE
    ELSE IF Head(a) # Head(b) THEN Head(a) < Head(b)
    ELSE BytesBefore(Tail(a), Tail(b))

\* faulty variant: ORDER BY file_path DESC
PathBeforeDescending(p, q) == BytesBefore(PathBytes(q), PathBytes(p))

\* ORDER BY file_path
PathBefore(p, q) == BytesBefore(PathBytes(p), PathBytes(q))

RECURSIVE ListFilesRows(_, _, _)
\* SELECT ... FROM files WHERE workspace_id = $1 ORDER BY file_path
ListFilesRows(d, ws, ps) ==
    IF ps = {} THEN <<>>
    ELSE LET p == CHOOSE q \in ps : \A r \in ps \ {q} : PathBefore(q, r)
         IN (IF FileExists(d, p) THEN <<FileInfo(ws, p, d.files[p])>> ELSE <<>>)
            \o ListFilesRows(d, ws, ps \ {p})

ReadGetWorkspace(p, f) ==
    /\ procs[p].pc = "R_GetWorkspaceByID"
    /\ Inject(p, f)
    /\ LET pr == Step(procs[p], f)
           a == Authorize(db, pr.ws, pr.user, Failed(f))
       IN Replace(p, IF a # "ok" THEN Done(pr, a)
                     ELSE IF pr.op = "list" THEN Goto(pr, "R_ListFiles")
                     ELSE Goto(pr, "R_GetFile"))
    /\ txStatus' = StatusAfter(f)
    /\ UNCHANGED <<db, txSnap, nextId, nextOp, deletes, last, meta, auth>>

\* faulty variant: GetFileContent answers with the projection alone
ReadGetFileBare(p, f) ==
    /\ procs[p].pc = "R_GetFile"
    /\ Inject(p, f)
    /\ LET pr == Step(procs[p], f)
           info == FileInfo(pr.ws, pr.path, db.files[pr.path])
       IN Replace(p, IF Failed(f) \/ ~FileExists(db, pr.path)
                     THEN Done(pr, "file not found")
                     ELSE [Done(pr, "ok") EXCEPT !.data = <<info>>])
    /\ txStatus' = StatusAfter(f)
    /\ UNCHANGED <<db, txSnap, nextId, nextOp, deletes, last, meta, auth>>

\* GetFile projects the row without its bytes, GetFileContent with them
ReadGetFile(p, f) ==
    /\ procs[p].pc = "R_GetFile"
    /\ Inject(p, f)
    /\ LET pr == Step(procs[p], f)
           row == db.files[pr.path]
           info == FileInfo(pr.ws, pr.path, row)
       IN Replace(p, IF Failed(f) \/ ~FileExists(db, pr.path)
                     THEN Done(pr, "file not found")
                     ELSE IF pr.op = "content"
                     THEN [Done(pr, "ok") EXCEPT !.data = <<info, row.content>>]
                     ELSE [Done(pr, "ok") EXCEPT !.data = <<info>>])
    /\ txStatus' = StatusAfter(f)
    /\ UNCHANGED <<db, txSnap, nextId, nextOp, deletes, last, meta, auth>>

ReadListFiles(p, f) ==
    /\ procs[p].pc = "R_ListFiles"
    /\ Inject(p, f)
    /\ LET pr == Step(procs[p], f)
       IN Replace(p, IF Failed(f) THEN Done(pr, "failed to list files")
                     ELSE [Done(pr, "ok") EXCEPT
                              !.data = ListFilesRows(db, pr.ws, Paths)])
    /\ txStatus' = StatusAfter(f)
    /\ UNCHANGED <<db, txSnap, nextId, nextOp, deletes, last, meta, auth>>

(* ------------------------- WorkspaceService reads --------------------- *)

WorkspaceGetByID(p, f) ==
    /\ procs[p].pc = "W_GetWorkspaceByID"
    /\ Inject(p, f)
    /\ LET pr == Step(procs[p], f)
           a == Authorize(db, pr.ws, pr.user, Failed(f))
       IN Replace(p, IF a # "ok" THEN Done(pr, a)
                     ELSE IF pr.op = "wsstorage"
                     THEN Goto(pr, "W_GetWorkspaceStorageUsage")
                     ELSE [Done(pr, "ok") EXCEPT !.data = <<db.workspaces[pr.ws]>>])
    /\ txStatus' = StatusAfter(f)
    /\ UNCHANGED <<db, txSnap, nextId, nextOp, deletes, last, meta, auth>>

StorageInfoGetUsage(p, f) ==
    /\ procs[p].pc = "W_GetWorkspaceStorageUsage"
    /\ Inject(p, f)
    /\ LET pr == Step(procs[p], f)
           w == db.workspaces[pr.ws]
       IN Replace(p, IF Failed(f) THEN Done(pr, "failed to get storage usage")
                     ELSE [Done(pr, "ok") EXCEPT !.data =
                             <<[storage_limit_bytes |-> w.storage_limit_bytes,
                                storage_used_bytes |-> w.storage_used_bytes,
                                actual_storage_used |-> ActualStorageUsed(db)]>>])
    /\ txStatus' = StatusAfter(f)
    /\ UNCHANGED <<db, txSnap, nextId, nextOp, deletes, last, meta, auth>>

(* --------------------- WorkspaceService.CreateWorkspace --------------- *)

\* UserTier.GetStorageLimit, in units of 1 MiB
GetStorageLimit(tier) ==
    CASE tier = "free" -> StorageLimit
      [] tier = "premium" -> 10 * 1024
      [] tier = "enterprise" -> 100 * 1024
      [] OTHER -> StorageLimit

\* faulty variant: the enterprise tier is given a maximum of its own
GetMaxWorkspacesAllBounded(tier) ==
    CASE tier = "free" -> 1
      [] tier = "premium" -> 10
      [] tier = "enterprise" -> 2
      [] OTHER -> 1

\* UserTier.GetMaxWorkspaces; -1 is unlimited
GetMaxWorkspaces(tier) ==
    CASE tier = "free" -> 1
      [] tier = "premium" -> 10
      [] tier = "enterprise" -> -1
      [] OTHER -> 1

\* SELECT * FROM workspaces WHERE user_id = $1
WorkspacesByUser(d, user) ==
    {w \in DOMAIN d.workspaces : d.workspaces[w].user_id = user}

NewWorkspaceID(d) == WorkspaceNames[Cardinality(DOMAIN d.workspaces) + 1]

\* INSERT INTO workspaces (user_id, name, storage_limit_bytes); the column
\* default gives storage_used_bytes 0
CreateWorkspaceRows(d, id, user, limit) ==
    [d EXCEPT !.workspaces =
        [w \in DOMAIN @ \cup {id} |->
            IF w = id THEN [user_id |-> user, storage_limit_bytes |-> limit,
                            storage_used_bytes |-> 0]
            ELSE @[w]]]

\* the count of the user's workspaces and the check against the tier's maximum
CreateGetWorkspacesByUser(p, f) ==
    /\ procs[p].pc = "C_GetWorkspacesByUser"
    /\ Inject(p, f)
    /\ LET pr == Step(procs[p], f)
           n == Cardinality(WorkspacesByUser(db, pr.user))
           q == [pr EXCEPT !.existing = n]
           maxWorkspaces == GetMaxWorkspaces(pr.tier)
       IN Replace(p, IF Failed(f) THEN Done(pr, "failed to get existing workspaces")
                     ELSE IF maxWorkspaces > 0 /\ n >= maxWorkspaces
                     THEN Done(q, "workspace limit reached")
                     ELSE Goto(q, "C_CreateWorkspace"))
    /\ txStatus' = StatusAfter(f)
    /\ UNCHANGED <<db, txSnap, nextId, nextOp, deletes, last, meta, auth>>

\* the insert of the workspace row and the projection of the row it returns
CreateWorkspace(p, f) ==
    /\ procs[p].pc = "C_CreateWorkspace"
    /\ Inject(p, f)
    /\ LET pr == Step(procs[p], f)
           id == NewWorkspaceID(db)
           d == CreateWorkspaceRows(db, id, pr.user, GetStorageLimit(pr.tier))
       IN IF Failed(f)
          THEN /\ Replace(p, Done(pr, "failed to create workspace"))
               /\ UNCHANGED db
          ELSE /\ Replace(p, [Done(pr, "ok") EXCEPT !.ws = id,
                                                    !.data = <<d.workspaces[id]>>])
               /\ db' = d
    /\ txStatus' = StatusAfter(f)
    /\ UNCHANGED <<txSnap, nextId, nextOp, deletes, last, meta, auth>>

(* --------------------------- metadata extraction ---------------------- *)

\* unicode.IsSpace on the bytes of text in ASCII
IsSpace(b) == b \in {9, 10, 11, 12, 13, 32}

\* len(strings.Fields(string(content))): the maximal runs of non-space bytes
WordCount(content) ==
    Cardinality({i \in 1..Len(content) :
                    /\ ~IsSpace(content[i])
                    /\ (i = 1 \/ IsSpace(content[i - 1]))})

\* filepath.Ext: the suffix that starts at the last dot of the last element
\* of the path, empty when that element has no dot
FilepathExt(path) ==
    LET dots == {i \in 1..Len(path) :
                    path[i] = 46 /\ \A j \in i..Len(path) : path[j] # 47}
    IN IF dots = {} THEN <<>>
       ELSE SubSeq(path, CHOOSE i \in dots : \A k \in dots : k <= i, Len(path))

\* strings.ToLower on ASCII
ToLower(s) == [i \in 1..Len(s) |-> IF s[i] \in 65..90 THEN s[i] + 32 ELSE s[i]]

\* ext := strings.ToLower(filepath.Ext(filePath))
Ext(filePath) == ToLower(FilepathExt(PathBytes(filePath)))

\* faulty variant: the extension is compared as written
DetectFileFormatCaseSensitive(filePath, content) ==
    LET ext == FilepathExt(PathBytes(filePath))
    IN IF ext = <<46, 109, 100>> \/ ext = <<46, 109, 97, 114, 107, 100, 111, 119, 110>> THEN "markdown"
       ELSE IF ext = <<46, 111, 114, 103>> THEN "orgmode"
       ELSE "plaintext"

\* switch ext { case ".md", ".markdown": ... case ".org": ... default: ... }
DetectFileFormat(filePath, content) ==
    LET ext == Ext(filePath)
    IN IF ext = <<46, 109, 100>> \/ ext = <<46, 109, 97, 114, 107, 100, 111, 119, 110>> THEN "markdown"
       ELSE IF ext = <<46, 111, 114, 103>> THEN "orgmode"
       ELSE "plaintext"

\* INSERT ... ON CONFLICT (file_id) DO UPDATE of file_metadata
UpsertFileMetadataRows(d, fileId, format, wordCount) ==
    [d EXCEPT !.file_metadata = {m \in @ : m.file_id # fileId} \cup
        {[file_id |-> fileId, format |-> format, word_count |-> wordCount]}]

\* file_metadata.file_id REFERENCES files(id)
MetadataInsertRejected(d, fileId) == \A q \in Paths : d.files[q].id # fileId

\* one parseFileMetadata goroutine runs: its only statement goes to the shared
\* session whenever the goroutine is scheduled, and its error is only printed
ParseFileMetadata(e, f) ==
    /\ e \in extractors
    /\ f \in Faults
    /\ (f # "none") =>
          /\ inject
          /\ txStatus # "aborted"
          /\ (f = "server") => (txStatus = "open")
    /\ extractors' = extractors \ {e}
    /\ IF Failed(f)
       THEN /\ extractorErr' = TRUE
            /\ txStatus' = StatusAfter(f)
            /\ UNCHANGED db
       ELSE IF MetadataInsertRejected(db, e.file_id)
       THEN /\ extractorErr' = TRUE
            /\ txStatus' = StatusAfterError
            /\ UNCHANGED db
       ELSE /\ extractorErr' = extractorErr
            /\ txStatus' = txStatus
            /\ db' = UpsertFileMetadataRows(db, e.file_id,
                                            DetectFileFormat(e.path, e.content),
                                            WordCount(e.content))
    /\ UNCHANGED <<txSnap, nextId, nextOp, procs, deletes, inject, last,
                   disableAsyncMetadataParsing, auth>>

\* mime.TypeByExtension on the table that the mime package is built with:
\* the extension is looked up as written and then in lower case; the empty
\* sequence stands for "". Of the table, the rows of .json, .html and .png.
TypeByExtension(ext) ==
    LET lower == ToLower(ext)
    IN IF lower = <<46, 106, 115, 111, 110>> THEN "application/json"
       ELSE IF lower = <<46, 104, 116, 109, 108>> THEN "text/html; charset=utf-8"
       ELSE IF lower = <<46, 112, 110, 103>> THEN "image/png"
       ELSE ""

\* faulty variant: the extension is compared as written
detectMimeTypeCaseSensitive(filePath, content) ==
    LET ext == FilepathExt(PathBytes(filePath))
    IN IF ext = <<46, 109, 100>> \/ ext = <<46, 109, 97, 114, 107, 100, 111, 119, 110>> THEN "text/markdown"
       ELSE IF ext = <<46, 111, 114, 103>> THEN "text/org"
       ELSE IF ext = <<46, 116, 120, 116>> THEN "text/plain"
       ELSE IF TypeByExtension(ext) # "" THEN TypeByExtension(ext)
       ELSE "text/plain"

\* switch ext { case ".md", ".markdown": ... case ".org": ... case ".txt": ...
\* default: mime.TypeByExtension(ext), "text/plain" when that is "" }
detectMimeType(filePath, content) ==
    LET ext == Ext(filePath)
    IN IF ext = <<46, 109, 100>> \/ ext = <<46, 109, 97, 114, 107, 100, 111, 119, 110>> THEN "text/markdown"
       ELSE IF ext = <<46, 111, 114, 103>> THEN "text/org"
       ELSE IF ext = <<46, 116, 120, 116>> THEN "text/plain"
       ELSE IF TypeByExtension(ext) # "" THEN TypeByExtension(ext)
       ELSE "text/plain"

\* mimeType := s.detectMimeType(req.FilePath, req.Content) of UploadFile,
\* taken alone: no statement, no state
DetectMime(p) ==
    /\ procs[p].pc = "F_detectMimeType"
    /\ Replace(p, [Done(procs[p], "ok") EXCEPT
                      !.data = <<detectMimeType(procs[p].path, procs[p].content)>>])
    /\ UNCHANGED <<db, txSnap, txStatus, nextId, nextOp, deletes, inject, last, meta, auth>>

\* a call of the exported DetectFileFormat: no statement, no state
DetectFormat(p) ==
    /\ procs[p].pc = "F_DetectFileFormat"
    /\ Replace(p, [Done(procs[p], "ok") EXCEPT
                      !.data = <<DetectFileFormat(procs[p].path, procs[p].content)>>])
    /\ UNCHANGED <<db, txSnap, txStatus, nextId, nextOp, deletes, inject, last, meta, auth>>

(* ------------------------ requests and scheduling --------------------- *)

FirstStep(op) ==
    CASE op = "upload" -> "U_GetWorkspaceByID"
      [] op = "detect" -> "F_DetectFileFormat"
      [] op = "mime" -> "F_detectMimeType"
      [] op = "create" -> "C_GetWorkspacesByUser"
      [] op = "delete" -> "D_GetWorkspaceByID"
      [] op \in {"get", "content", "list"} -> "R_GetWorkspaceByID"
      [] OTHER -> "W_GetWorkspaceByID"

Request(op, ws, path, content, user, pre) ==
    [Idle EXCEPT !.pc = FirstStep(op), !.op = op, !.ws = ws, !.path = path,
                 !.content = content, !.user = user, !.tier = UserTier(user),
                 !.pre = pre]

\* what is kept of a returned call: a refusal for lack of ownership, a quota
\* rejection, or a delete or an upload that succeeded (with what it submitted)
Remembered(pr) ==
    IF pr.ret = "access denied" THEN [NoCall EXCEPT !.kind = "denied"]
    ELSE IF pr.ret = "storage limit exceeded"
    THEN [NoCall EXCEPT !.kind = "rejected", !.path = pr.path]
    ELSE IF pr.op = "delete" /\ pr.ret = "ok"
    THEN [NoCall EXCEPT !.kind = "deleted", !.path = pr.path]
    ELSE IF pr.op = "upload" /\ pr.ret = "ok"
    THEN [kind |-> "uploaded", path |-> pr.path, content |-> pr.content]
    ELSE NoCall

\* calls under way that have yet to open their audit row or transaction
InFlight(pcs) == Cardinality({q \in Procs : procs[q].pc \in pcs})

UploadsInFlight ==
    InFlight({"U_GetWorkspaceByID", "U_GetWorkspaceStorageUsage", "U_GetFile",
              "U_CreateSyncOperation"})

DeletesInFlight == InFlight({"D_GetWorkspaceByID", "D_GetFile", "D_Begin"})

CreatesInFlight == InFlight({"C_GetWorkspacesByUser", "C_CreateWorkspace"})

\* one request enters a handler; arguments that the handler does not read
\* are fixed
Call(p, ops, wss, users, contents, pre, maxDeletes) ==
    /\ procs[p].pc = "idle"
    /\ \E op \in ops, ws \in wss, user \in users :
       /\ (op = "upload") => (nextOp + UploadsInFlight <= MaxUploads)
       /\ (op = "delete") => (deletes + DeletesInFlight < maxDeletes)
       /\ (op = "create") =>
             (Cardinality(DOMAIN db.workspaces) + CreatesInFlight < MaxWorkspaceRows)
       /\ \E path \in IF op \in {"list", "wsget", "wsstorage", "create"} THEN {"a.md"}
                       ELSE IF op \in {"detect", "mime"} THEN FormatPaths ELSE Paths :
          \E content \in IF op \in {"upload", "detect", "mime"} THEN contents
                         ELSE {<<>>} :
             Replace(p, Request(op, ws, path, content, user, pre))
    /\ UNCHANGED <<db, txSnap, txStatus, nextId, nextOp, deletes, inject, last, meta, auth>>

\* the handler has returned
Return(p) ==
    /\ procs[p].pc = "done"
    /\ last' = Remembered(procs[p])
    /\ Replace(p, Idle)
    /\ UNCHANGED <<db, txSnap, txStatus, nextId, nextOp, deletes, inject, meta, auth>>

Statement(p) ==
    \/ \E f \in Faults : UploadGetWorkspace(p, f)
    \/ \E f \in Faults : UploadGetStorageUsage(p, f)
    \/ \E f \in Faults : UploadGetFile(p, f)
    \/ \E f \in Faults : UploadCreateSyncOperation(p, f)
    \/ \E f \in Faults : UploadBegin(p, f)
    \/ \E f \in Faults : UploadUpsertFile(p, f)
    \/ \E f \in Faults : UploadUpdateStorageUsed(p, f)
    \/ \E f \in Faults : UploadCreateFileVersion(p, f)
    \/ \E f \in Faults : UploadCommit(p, f)
    \/ \E f \in Faults : UploadMarkSuccess(p, f)
    \/ \E f \in Faults : UploadMarkFailed(p, f)
    \/ UploadRollback(p)
    \/ \E f \in Faults : DeleteGetWorkspace(p, f)
    \/ \E f \in Faults : DeleteGetFile(p, f)
    \/ \E f \in Faults : DeleteBegin(p, f)
    \/ \E f \in Faults : DeleteFileRow(p, f)
    \/ \E f \in Faults : DeleteUpdateStorageUsed(p, f)
    \/ \E f \in Faults : DeleteCommit(p, f)
    \/ DeleteRollback(p)
    \/ Return(p)

ReadStatement(p) ==
    \/ \E f \in Faults : ReadGetWorkspace(p, f)
    \/ \E f \in Faults : ReadGetFile(p, f)
    \/ \E f \in Faults : ReadListFiles(p, f)
    \/ \E f \in Faults : WorkspaceGetByID(p, f)
    \/ \E f \in Faults : StorageInfoGetUsage(p, f)

\* calls run one at a time to completion
Next ==
    \/ Call(1, Ops, WorkspaceIDs, Users, Contents, Committed, MaxDeletes)
    \/ Statement(1)
    \/ ReadStatement(1)

Spec == Init /\ [][Next]_vars

\* uploads and deletes of two request goroutines interleave statement by
\* statement on the shared session
ConcNext ==
    \E p \in Procs :
        \/ Call(p, {"upload", "delete"}, {"w1"}, {"owner"}, {Bytes(20), Bytes(90)},
                InitDB, MaxConcDeletes)
        \/ Statement(p)

\* the statements of UploadFile
UploadStatement(p) ==
    \/ \E f \in Faults : UploadGetWorkspace(p, f)
    \/ \E f \in Faults : UploadGetStorageUsage(p, f)
    \/ \E f \in Faults : UploadGetFile(p, f)
    \/ \E f \in Faults : UploadCreateSyncOperation(p, f)
    \/ \E f \in Faults : UploadBegin(p, f)
    \/ \E f \in Faults : UploadUpsertFile(p, f)
    \/ \E f \in Faults : UploadUpdateStorageUsed(p, f)
    \/ \E f \in Faults : UploadCreateFileVersion(p, f)
    \/ \E f \in Faults : UploadCommit(p, f)
    \/ \E f \in Faults : UploadMarkSuccess(p, f)
    \/ \E f \in Faults : UploadMarkFailed(p, f)
    \/ UploadRollback(p)
    \/ Return(p)

\* uploads of two request goroutines to one workspace, interleaved statement
\* by statement, and no other call
UploadNext ==
    \E p \in Procs :
        \/ Call(p, {"upload"}, {"w1"}, {"owner"}, {Bytes(20), Bytes(90)}, InitDB,
                MaxDeletes)
        \/ UploadStatement(p)

UploadSpec == Init /\ [][UploadNext]_vars

\* the interleaved runs leave the injected failures out: the only statements
\* that fail are those the data makes fail
ConcInit ==
    /\ db = InitDB
    /\ txSnap = InitDB
    /\ txStatus = "idle"
    /\ nextId = 1
    /\ nextOp = 1
    /\ procs = [p \in Procs |-> Idle]
    /\ deletes = 0
    /\ inject = FALSE
    /\ last = NoCall
    /\ disableAsyncMetadataParsing = TRUE
    /\ extractors = {}
    /\ extractorErr = FALSE
    /\ AuthInit

ConcSpec == ConcInit /\ [][ConcNext]_vars

\* the service as NewFileService builds it: every committed upload starts a
\* parseFileMetadata goroutine, which runs beside the owner's later calls
MetaNext ==
    \/ Call(1, {"upload", "delete"}, {"w1"}, {"owner"}, {Bytes(5), Bytes(20)},
            Committed, MaxDeletes)
    \/ Statement(1)
    \/ \E e \in extractors, f \in Faults : ParseFileMetadata(e, f)

MetaInit ==
    /\ db = InitDB
    /\ txSnap = InitDB
    /\ txStatus = "idle"
    /\ nextId = 1
    /\ nextOp = 1
    /\ procs = [p \in Procs |-> Idle]
    /\ deletes = 0
    /\ inject = TRUE
    /\ last = NoCall
    /\ disableAsyncMetadataParsing = FALSE
    /\ extractors = {}
    /\ extractorErr = FALSE
    /\ AuthInit

MetaSpec == MetaInit /\ [][MetaNext]_vars

(* ---------------------------- HTTP handlers --------------------------- *)

\* err.Error() of what a service method returns: the label, then the wrapped
\* error of the driver where fmt.Errorf has a %w
ErrorText(ret) ==
    IF ret = "access denied"
    THEN "access denied: workspace belongs to different user"
    ELSE IF ret \in {"workspace not found", "file not found"}
    THEN ret \o ": no rows in result set"
    ELSE ret \o ": error of the statement"

\* status code and body that the handler of the call writes
HttpResponse(pr) ==
    LET text == ErrorText(pr.ret)
        error(status) == [status |-> status, body |-> <<text>>]
    IN IF pr.op \in WorkspaceOps
       THEN IF pr.ret = "ok" THEN [status |-> 200, body |-> pr.data]
            ELSE IF text = "workspace not found" THEN error(404)
            ELSE IF text = "access denied: workspace belongs to different user"
            THEN [status |-> 404, body |-> <<"Workspace not found">>]
            ELSE error(500)
       ELSE IF pr.op \in {"get", "content"}
       THEN IF pr.ret = "ok" THEN [status |-> 200, body |-> pr.data]
            ELSE error(404)
       ELSE IF pr.op = "list"
       THEN IF pr.ret = "ok" THEN [status |-> 200, body |-> pr.data]
            ELSE error(500)
       ELSE IF pr.op = "upload"
       THEN IF pr.ret = "ok" THEN [status |-> 201, body |-> pr.data]
            ELSE IF text = "storage limit exceeded" THEN error(413)
            ELSE error(500)
       ELSE IF pr.ret = "ok" THEN [status |-> 204, body |-> <<>>]
            ELSE error(500)

\* requests of a principal who owns no workspace, two at a time: each ends at
\* the workspace lookup of its handler
HttpNext ==
    \E p \in Procs :
        \/ Call(p, Ops, WorkspaceIDs, {"other"}, {Bytes(5)}, InitDB, MaxDeletes)
        \/ \E f \in Faults : UploadGetWorkspace(p, f)
        \/ \E f \in Faults : DeleteGetWorkspace(p, f)
        \/ \E f \in Faults : ReadGetWorkspace(p, f)
        \/ \E f \in Faults : WorkspaceGetByID(p, f)
        \/ Return(p)

HttpSpec == ConcInit /\ [][HttpNext]_vars

\* CreateWorkspace calls of two request goroutines, interleaved statement by
\* statement
CreateNext ==
    \E p \in Procs :
        \/ Call(p, {"create"}, {"w1"}, Accounts, {<<>>}, InitDB, MaxDeletes)
        \/ \E f \in Faults : CreateGetWorkspacesByUser(p, f)
        \/ \E f \in Faults : CreateWorkspace(p, f)
        \/ Return(p)

CreateSpec == ConcInit /\ [][CreateNext]_vars

\* the calls of the owner of w1 and of a premium account, one at a time:
\* file operations and reads on w1, and CreateWorkspace
WorkspaceNext ==
    \/ Call(1, Ops \cup {"create"}, {"w1"}, {"owner", "pro"}, {Bytes(20)},
            Committed, MaxDeletes)
    \/ Statement(1)
    \/ ReadStatement(1)
    \/ \E f \in Faults : CreateGetWorkspacesByUser(1, f)
    \/ \E f \in Faults : CreateWorkspace(1, f)

WorkspaceSpec == Init /\ [][WorkspaceNext]_vars

\* contents handed to DetectFileFormat: none, plain words, a Markdown heading
\* ("# x") and an Org heading ("* x")
FormatContents == {<<>>, Bytes(5), <<35, 32, 120>>, <<42, 32, 120>>}

\* calls of DetectFileFormat and of detectMimeType alone
FormatNext ==
    \/ Call(1, {"detect", "mime"}, {"w1"}, {"owner"}, FormatContents, InitDB,
            MaxDeletes)
    \/ DetectFormat(1)
    \/ DetectMime(1)
    \/ Return(1)

FormatSpec == Init /\ [][FormatNext]_vars

(* ----------------------- device authentication ----------------------- *)

\* the results of generateRandomCode(32) in the order they are drawn: 16
\* bytes of crypto/rand in hex, taken as never repeating
DeviceCodes == <<"d1", "d2">>

\* the device_code parameters that polls carry: none, the codes above and one
\* that was never handed out
PollCodes == {"", "d1", "d2", "dx"}

\* POST /auth/device: a session under a new code, expiring 10 minutes from now
\* (a body that does not decode is answered 400 and changes nothing)
StartDeviceAuth ==
    /\ nextCode <= Len(DeviceCodes)
    /\ LET deviceCode == DeviceCodes[nextCode]
           expiresAt == now + DeviceCodeLifetime
       IN pendingAuth' = [c \in DOMAIN pendingAuth \cup {deviceCode} |->
                             IF c = deviceCode THEN expiresAt ELSE pendingAuth[c]]
    /\ nextCode' = nextCode + 1
    /\ UNCHANGED <<db, txSnap, txStatus, nextId, nextOp, procs, deletes, inject,
                   last, meta, now, polled, api_tokens, issued, authed>>

\* faulty variant: the expired session is answered but stays in the map
PollDeviceAuthKeeping(deviceCode) ==
    /\ polled.n < MaxPolls
    /\ LET exists == deviceCode \in DOMAIN pendingAuth
           expired == exists /\ now > pendingAuth[deviceCode]
           answer == IF deviceCode = "" THEN "device_code is required"
                     ELSE IF ~exists THEN "Invalid device code"
                     ELSE IF expired THEN "Device code expired"
                     ELSE "pending"
       IN /\ polled' = [code |-> deviceCode, answer |-> answer, at |-> now,
                        n |-> polled.n + 1]
          /\ pendingAuth' = pendingAuth
    /\ UNCHANGED <<db, txSnap, txStatus, nextId, nextOp, procs, deletes, inject,
                   last, meta, now, nextCode, api_tokens, issued, authed>>

\* GET /auth/device/poll: time.Now().After(session.ExpiresAt) deletes the
\* session; completion of the OAuth flow is not looked at
PollDeviceAuth(deviceCode) ==
    /\ polled.n < MaxPolls
    /\ LET exists == deviceCode \in DOMAIN pendingAuth
           expired == exists /\ now > pendingAuth[deviceCode]
           answer == IF deviceCode = "" THEN "device_code is required"
                     ELSE IF ~exists THEN "Invalid device code"
                     ELSE IF expired THEN "Device code expired"
                     ELSE "pending"
       IN /\ polled' = [code |-> deviceCode, answer |-> answer, at |-> now,
                        n |-> polled.n + 1]
          /\ pendingAuth' = IF deviceCode # "" /\ expired
                            THEN [c \in DOMAIN pendingAuth \ {deviceCode} |->
                                     pendingAuth[c]]
                            ELSE pendingAuth
    /\ UNCHANGED <<db, txSnap, txStatus, nextId, nextOp, procs, deletes, inject,
                   last, meta, now, nextCode, api_tokens, issued, authed>>

\* the monotonic clock that time.Now() reads moves on
Tick ==
    /\ now < MaxTime
    /\ now' = now + 1
    /\ UNCHANGED <<db, txSnap, txStatus, nextId, nextOp, procs, deletes, inject,
                   last, meta, pendingAuth, nextCode, polled, api_tokens, issued,
                   authed>>

\* the device-auth endpoints, one request at a time
DeviceNext ==
    \/ StartDeviceAuth
    \/ \E deviceCode \in PollCodes : PollDeviceAuth(deviceCode)
    \/ Tick

DeviceSpec == Init /\ [][DeviceNext]_vars

(* ------------------------------ API tokens ---------------------------- *)

\* the character of a hexadecimal digit in lower case
HexDigit(n) == IF n < 10 THEN 48 + n ELSE 87 + n

\* hex.EncodeToString, and fmt.Sprintf("%x", s) on a string: two digits for
\* every byte
HexEncode(bytes) ==
    [i \in 1..(2 * Len(bytes)) |->
        IF i % 2 = 1 THEN HexDigit(bytes[(i + 1) \div 2] \div 16)
        ELSE HexDigit(bytes[i \div 2] % 16)]

\* results of rand.Read(tokenBytes), scaled down from 32 bytes to 2
RandomTokens == {<<0, 171>>, <<255, 16>>, <<18, 52>>}

\* the token string of CreateSimpleTestData ("t-1" for "test-token-...")
TestToken == <<116, 45, 49>>

\* "Bearer "
BearerPrefix == <<66, 101, 97, 114, 101, 114, 32>>

HasPrefix(s, prefix) ==
    Len(s) >= Len(prefix) /\ SubSeq(s, 1, Len(prefix)) = prefix

TrimPrefix(s, prefix) ==
    IF HasPrefix(s, prefix) THEN SubSeq(s, Len(prefix) + 1, Len(s)) ELSE s

\* the token strings that clients hold
TokenStrings == {HexEncode(b) : b \in RandomTokens} \cup {TestToken}

\* Authorization headers: none, "Bearer " alone, a token without the scheme,
\* and the tokens as Bearer credentials
AuthHeaders ==
    {<<>>, BearerPrefix} \cup TokenStrings
        \cup {BearerPrefix \o token : token \in TokenStrings}

\* hasher := func(data string) string { return fmt.Sprintf("%x", data) }
hasher(data) == HexEncode(data)

\* UNIQUE(token_hash) of api_tokens
TokenInsertRejected(rows, tokenHash) == \E t \in rows : t.token_hash = tokenHash

\* INSERT INTO api_tokens (user_id, token_hash, name, expires_at); expires_at
\* is NULL in every caller
CreateAPITokenRows(rows, user, tokenHash) ==
    rows \cup {[user_id |-> user, token_hash |-> tokenHash]}

\* SELECT ... FROM api_tokens t JOIN users u ... WHERE t.token_hash = $1
GetTokenByHash(rows, tokenHash) == {t \in rows : t.token_hash = tokenHash}

\* CreateSimpleTestData: a token stored under the SHA-256 digest of its string
CreateSimpleTestData ==
    /\ ~TokenInsertRejected(api_tokens, Sha256Hex(TestToken))
    /\ api_tokens' = CreateAPITokenRows(api_tokens, "owner", Sha256Hex(TestToken))
    /\ UNCHANGED <<db, txSnap, txStatus, nextId, nextOp, procs, deletes, inject,
                   last, meta, pendingAuth, now, nextCode, polled, issued, authed>>

\* GoogleCallback and GitHubCallback from generateAPIToken on: the token is
\* stored under hasher(tokenString) and returned in the response; a failed
\* insert is answered without a token
OAuthCallback(user, tokenBytes) ==
    LET tokenString == HexEncode(tokenBytes)
        tokenHash == hasher(tokenString)
    IN /\ IF TokenInsertRejected(api_tokens, tokenHash)
          THEN UNCHANGED <<api_tokens, issued>>
          ELSE /\ api_tokens' = CreateAPITokenRows(api_tokens, user, tokenHash)
               /\ issued' = issued \cup {[token |-> tokenString, user_id |-> user]}
       /\ UNCHANGED <<db, txSnap, txStatus, nextId, nextOp, procs, deletes,
                      inject, last, meta, pendingAuth, now, nextCode, polled,
                      authed>>

\* AuthMiddleware.RequireAuth up to next.ServeHTTP: the error of
\* UpdateTokenLastUsed is dropped and last_used_at is not followed
RequireAuth(authHeader) ==
    LET token == TrimPrefix(authHeader, BearerPrefix)
        tokenHash == Sha256Hex(token)
        rows == GetTokenByHash(api_tokens, tokenHash)
        refused(text) == [header |-> authHeader, status |-> 401, body |-> text,
                          user_id |-> "none"]
    IN /\ authed' =
             IF authHeader = <<>> THEN refused("Missing Authorization header")
             ELSE IF ~HasPrefix(authHeader, BearerPrefix)
             THEN refused("Invalid Authorization header format")
             ELSE IF token = <<>> THEN refused("Missing token")
             ELSE IF rows = {} THEN refused("Invalid token")
             ELSE [header |-> authHeader, status |-> 200, body |-> "next",
                   user_id |-> (CHOOSE t \in rows : TRUE).user_id]
       /\ UNCHANGED <<db, txSnap, txStatus, nextId, nextOp, procs, deletes,
                      inject, last, meta, pendingAuth, now, nextCode, polled,
                      api_tokens, issued>>

\* the OAuth callbacks and the requests that carry a token, one at a time
TokenNext ==
    \/ CreateSimpleTestData
    \/ \E user \in Users, tokenBytes \in RandomTokens : OAuthCallback(user, tokenBytes)
    \/ \E authHeader \in AuthHeaders : RequireAuth(authHeader)

TokenSpec == Init /\ [][TokenNext]_vars

(* ============================ properties ============================== *)

Used(d) == d.workspaces["w1"].storage_used_bytes

Limit(d) == d.workspaces["w1"].storage_limit_bytes

\* no call is under way: the one at a time calls have all run to completion
Quiet == \A p \in Procs : procs[p].pc \in {"idle", "done"}

Finished(p, op) == procs[p].pc = "done" /\ procs[p].op = op

\* C1: after any sequence of UploadFile and DeleteFile calls run one at a time
\* to completion, succeeding, rejected or failing, storage_used_bytes equals
\* the sum of size_bytes over the files in the workspace.
C1_UsedEqualsSumOfSizes ==
    Quiet => Used(Committed) = ActualStorageUsed(Committed)

\* C2: with calls run one at a time from usage 0, whenever no transaction is
\* open 0 <= storage_used_bytes <= storage_limit_bytes.
C2_UsedWithinLimit ==
    (txStatus = "idle") => (0 <= Used(db) /\ Used(db) <= Limit(db))

\* an upload has just committed on top of earlier content and the workspace
\* is within 20 bytes of its limit
C2_Witness ==
    /\ Finished(1, "upload")
    /\ procs[1].ret = "ok"
    /\ txStatus = "idle"
    /\ Used(procs[1].pre) > 0
    /\ Used(db) + 20 > Limit(db)

\* C3: under any interleaving of concurrent UploadFile and DeleteFile calls on
\* one workspace, storage_used_bytes is never negative in a committed state.
C3_UsedNeverNegative == Used(Committed) >= 0

\* The state C4 is about: both request goroutines ran UploadFile to different
\* paths, both passed the precheck on the same reading of the usage (neither
\* saw the other's write), both returned success with their file stored, and
\* the two files together are larger than the limit.
BothAdmitted ==
    /\ \A p \in Procs :
          /\ Finished(p, "upload")
          /\ procs[p].ret = "ok"
          /\ Committed.files[procs[p].path].content = procs[p].content
    /\ procs[1].path # procs[2].path
    /\ procs[1].used = procs[2].used
    /\ Len(procs[1].content) + Len(procs[2].content) > Limit(Committed)

C5_RejectedExactlyWhenOverLimit ==
    LET pr == procs[1]
        existingSize == pr.pre.files[pr.path].size_bytes
        projected == Used(pr.pre) - existingSize + Len(pr.content)
        rejected == pr.ret = "storage limit exceeded"
    IN (Finished(1, "upload") /\ pr.user = "owner" /\ pr.ws = "w1" /\ pr.queries >= 3) =>
          /\ rejected <=> (projected > Limit(pr.pre))
          /\ rejected => (pr.newUsage = projected /\ pr.limit = Limit(pr.pre))
          /\ (Limit(pr.pre) = 100 /\ Used(pr.pre) = 90 /\ ~FileExists(pr.pre, pr.path)) =>
                /\ (Len(pr.content) = 20) => (rejected /\ pr.newUsage = 110)
                /\ (Len(pr.content) = 5 /\ pr.faults = 0) =>
                      (pr.ret = "ok" /\ Used(db) = 95)

\* C6: an upload rejected by the quota precheck opens no transaction and no
\* audit row; sync_operations, files, file_versions and storage_used_bytes
\* are as they were before it, however often the rejected upload is repeated.
C6_RejectionChangesNothing ==
    LET pr == procs[1]
    IN (Finished(1, "upload") /\ pr.ret = "storage limit exceeded") =>
          /\ ~pr.began
          /\ pr.opId = 0
          /\ txStatus = "idle"
          /\ db = pr.pre

\* the same upload is rejected a second time in a workspace with audit rows
C6_Witness ==
    /\ Finished(1, "upload")
    /\ procs[1].ret = "storage limit exceeded"
    /\ last.kind = "rejected"
    /\ last.path = procs[1].path
    /\ db.sync_operations # {}

\* C7: a call of UploadFile, GetFile, GetFileContent, ListFiles or DeleteFile
\* by a principal who does not own the workspace returns the access-denied
\* error (the not-found one when the workspace lookup itself fails), returns no
\* data and leaves files, usage, versions and audit rows unchanged; the owner
\* can still read the file afterwards.
C7_NonOwnerDenied ==
    LET pr == procs[1]
        row == pr.pre.files[pr.path]
    IN /\ (pr.pc = "done" /\ pr.op \in FileOps /\ pr.ws = "w1" /\ pr.user = "other") =>
             /\ pr.ret \in {"access denied", "workspace not found"}
             /\ (pr.faults = 0) => (pr.ret = "access denied")
             /\ pr.data = NoData
             /\ txStatus = "idle"
             /\ db = pr.pre
       /\ (/\ last.kind = "denied"
           /\ pr.pc = "done" /\ pr.op \in {"get", "content"}
           /\ pr.ws = "w1" /\ pr.user = "owner" /\ pr.faults = 0
           /\ FileExists(pr.pre, pr.path)) =>
             /\ pr.ret = "ok"
             /\ pr.data[1] = FileInfo("w1", pr.path, row)
             /\ (pr.op = "content") => (pr.data[2] = row.content)

\* the owner reads a file's content right after a stranger was refused
C7_Witness ==
    /\ last.kind = "denied"
    /\ Finished(1, "content")
    /\ procs[1].user = "owner"
    /\ procs[1].ret = "ok"
    /\ Len(procs[1].data[2]) > 0

\* C8: every file operation and workspace read on a workspace id that does not
\* exist fails with the workspace-not-found error after that one lookup, before
\* any other read or write, and leaves all state unchanged.
C8_MissingWorkspaceNotFound ==
    LET pr == procs[1]
    IN (pr.pc = "done" /\ pr.ws = "w0") =>
          /\ pr.ret = "workspace not found"
          /\ pr.queries = 1
          /\ pr.data = NoData
          /\ txStatus = "idle"
          /\ db = pr.pre

\* a delete addressed to the missing workspace names a path that the existing
\* workspace holds
C8_Witness ==
    /\ Finished(1, "delete")
    /\ procs[1].ws = "w0"
    /\ procs[1].user = "owner"
    /\ FileExists(db, procs[1].path)

\* C9: a successful DeleteFile of the file at a path removes exactly that file
\* row and sets storage_used_bytes to its value before the call minus the
\* file's size_bytes; every other file is unchanged.
C9_DeleteReversesAccounting ==
    LET pr == procs[1]
    IN (Finished(1, "delete") /\ pr.ret = "ok") =>
          /\ FileExists(pr.pre, pr.path)
          /\ db.files = [pr.pre.files EXCEPT ![pr.path] = NoFile]
          /\ Used(db) = Used(pr.pre) - pr.pre.files[pr.path].size_bytes
          /\ txStatus = "idle"

\* one of two files has been deleted and the other one remains
C9_Witness ==
    /\ Finished(1, "delete")
    /\ procs[1].ret = "ok"
    /\ \E q \in Paths \ {procs[1].path} : FileExists(db, q)
    /\ Used(db) > 0
    /\ Used(db) < Used(procs[1].pre)

\* C10: DeleteFile on a path with no file returns the file-not-found error
\* (whatever error it returns, never success) and changes neither the files
\* nor storage_used_bytes; a second delete of a path just deleted fails and
\* does not decrement the usage again.
C10_MissingFileNotFound ==
    LET pr == procs[1]
        owned == Finished(1, "delete") /\ pr.ws = "w1" /\ pr.user = "owner"
    IN /\ (owned /\ ~FileExists(pr.pre, pr.path)) =>
             /\ pr.ret # "ok"
             /\ (pr.faults = 0) => (pr.ret = "file not found")
             /\ db = pr.pre
       /\ (owned /\ last.kind = "deleted" /\ last.path = pr.path) =>
             /\ pr.ret # "ok"
             /\ db.files = pr.pre.files
             /\ Used(db) = Used(pr.pre)

\* the delete of a path follows the successful delete of the same path while
\* another file keeps the usage above zero
C10_Witness ==
    /\ Finished(1, "delete")
    /\ procs[1].ret = "file not found"
    /\ last.kind = "deleted"
    /\ last.path = procs[1].path
    /\ Used(db) > 0

\* C11: for every successful UploadFile the returned FileInfo and the stored
\* file row have size_bytes equal to the byte length of the submitted content
\* and content_hash equal to the hex SHA-256 digest of that content.
C11_SizeAndDigestOfContent ==
    LET pr == procs[1]
        row == db.files[pr.path]
    IN (Finished(1, "upload") /\ pr.ret = "ok") =>
          /\ Len(pr.data) = 1
          /\ pr.data[1].size_bytes = Len(pr.content)
          /\ pr.data[1].content_hash = Sha256Hex(pr.content)
          /\ pr.data[1].id = row.id
          /\ row.size_bytes = Len(pr.content)
          /\ row.content_hash = Sha256Hex(pr.content)

\* an upload has replaced content of another length at its path
C11_Witness ==
    /\ Finished(1, "upload")
    /\ procs[1].ret = "ok"
    /\ FileExists(procs[1].pre, procs[1].path)
    /\ procs[1].pre.files[procs[1].path].size_bytes # Len(procs[1].content)

\* the call that has returned is the owner's upload to the path that the
\* upload before it, which succeeded, wrote
SecondUpload ==
    /\ Finished(1, "upload")
    /\ procs[1].ws = "w1"
    /\ procs[1].user = "owner"
    /\ last.kind = "uploaded"
    /\ last.path = procs[1].path
    /\ FileExists(procs[1].pre, procs[1].path)

\* C12: uploading byte-identical content to the same path twice in succession
\* leaves storage_used_bytes and the file's size and digest after the second
\* upload equal to their values after the first, with one file at that path.
C12_IdenticalReuploadChangesNothing ==
    LET pr == procs[1]
        before == pr.pre.files[pr.path]
        after == db.files[pr.path]
    IN (SecondUpload /\ before.content = pr.content) =>
          /\ Used(db) = Used(pr.pre)
          /\ FileExists(db, pr.path)
          /\ after.size_bytes = before.size_bytes
          /\ after.content_hash = before.content_hash

\* C13: when the owner uploads content c1 and then content c2 to the same
\* path, both within quota, the second upload succeeds and afterwards the one
\* file row at that path is the row of the first upload and carries the digest
\* and size of c2.
C13_OverwriteReplacesContent ==
    LET pr == procs[1]
        before == pr.pre.files[pr.path]
        after == db.files[pr.path]
    IN (/\ SecondUpload
        /\ pr.faults = 0
        /\ before.content # pr.content
        /\ Used(pr.pre) - before.size_bytes + Len(pr.content) <= Limit(pr.pre)) =>
          /\ pr.ret = "ok"
          /\ after.id = before.id
          /\ after.content_hash = Sha256Hex(pr.content)
          /\ after.size_bytes = Len(pr.content)

\* C14: if the version-row insert of an upload fails, in particular on the
\* unique (file_id, version_number) constraint, the failure is swallowed: the
\* file upsert and the usage update of that upload commit and UploadFile
\* returns success.
C14_VersionFailureSwallowed ==
    LET pr == procs[1]
    IN (Finished(1, "upload") /\ pr.versionErr /\ pr.faults = 0) =>
          /\ pr.ret = "ok"
          /\ db.files[pr.path].content = pr.content
          /\ Used(db) = pr.newUsage

\* the audit rows with the given id
AuditRows(d, id) == {o \in d.sync_operations : o.id = id}

\* C15: if the file upsert, the usage update or the commit of an upload fails,
\* UploadFile returns an error, the file table and storage_used_bytes are as
\* before the upload, and once UploadFile has returned the audit row opened
\* for that upload is durably in status "failed" with the error text.
C15_FailureRollsBackAndMarksFailed ==
    LET pr == procs[1]
    IN (/\ Finished(1, "upload")
        /\ pr.ret \in {"failed to upsert file", "failed to update storage usage",
                       "failed to commit transaction"}) =>
          /\ txStatus = "idle"
          /\ db.files = pr.pre.files
          /\ Used(db) = Used(pr.pre)
          /\ \E o \in AuditRows(db, pr.opId) :
                o.status = "failed" /\ o.error_message = pr.ret

\* C16: every audit row opened by an upload is finalized: on every exit path
\* of UploadFile taken after the row was created, a failure to begin the
\* transaction included, the row is in status "success" or "failed" when the
\* call returns, never "pending".
C16_AuditRowFinalized ==
    LET pr == procs[1]
    IN (Finished(1, "upload") /\ pr.opId # 0) =>
          \A o \in AuditRows(db, pr.opId) : o.status \in {"success", "failed"}

\* C17: every attempted mutation that passes authorization, upload and delete
\* alike, is recorded by one sync_operations row of the matching operation
\* type that leaves the pending status; every DeleteFile that removes a file
\* leaves an audit row of type delete.
C17_EveryMutationAudited ==
    LET pr == procs[1]
    IN /\ (Finished(1, "upload") /\ pr.began) =>
             /\ Cardinality(AuditRows(db, pr.opId)) = 1
             /\ \A o \in AuditRows(db, pr.opId) : o.operation_type = "upload"
       /\ (Finished(1, "delete") /\ pr.ret = "ok") =>
             \E o \in db.sync_operations :
                /\ o.operation_type = "delete"
                /\ o.status \in {"success", "failed"}

\* C18: once an upload's transaction has committed, UploadFile returns the
\* file projection with no error even if marking the audit row "success" fails
\* or the metadata extraction fails, and the committed file row and usage stay
\* in place.
C18_CommittedUploadReturnsFile ==
    LET pr == procs[1]
    IN (Finished(1, "upload") /\ pr.committed) =>
          /\ pr.ret = "ok"
          /\ pr.data = <<FileInfo(pr.ws, pr.path, pr.file)>>
          /\ Committed.files[pr.path] = pr.file
          /\ Used(Committed) = pr.newUsage

\* the upload has returned, its audit row could not be marked and its
\* extractor has ended in an error
C18_Witness ==
    /\ Finished(1, "upload")
    /\ procs[1].committed
    /\ \E o \in AuditRows(db, procs[1].opId) : o.status = "pending"
    /\ extractorErr
    /\ Extractor(procs[1]) \notin extractors

\* C19: the metadata extractor of an upload is started only after that
\* upload's transaction has committed, never for an upload that was rejected
\* or failed, and UploadFile returns without waiting for the extractor: the
\* step that starts an extractor is the last step of an upload that has
\* committed, it returns success, and the extractor has then yet to run.
C19_ExtractorStartsAfterCommit ==
    [][(extractors' \ extractors # {}) =>
          /\ procs[1].pc = "U_MarkSuccess"
          /\ procs[1].committed
          /\ txStatus = "idle"
          /\ db.files[procs[1].path] = procs[1].file
          /\ procs'[1].pc = "done"
          /\ procs'[1].ret = "ok"
          /\ extractors' \ extractors = {Extractor(procs[1])}]_vars

\* UploadFile has returned success and the extractor it started has not run
C19_Witness ==
    /\ Finished(1, "upload")
    /\ procs[1].ret = "ok"
    /\ Extractor(procs[1]) \in extractors
    /\ db.file_metadata = {}

\* no upload is in progress, every started extractor has run, none failed
Settled ==
    /\ procs[1].pc \in {"idle", "done"}
    /\ txStatus = "idle"
    /\ extractors = {}
    /\ ~extractorErr

\* C20: once uploads have stopped and every started extractor has run to
\* completion without error, the metadata row of every stored file holds the
\* format and the word count of the file's current content.
C20_MetadataMatchesContent ==
    Settled =>
        \A path \in Paths :
            FileExists(db, path) =>
                \E m \in db.file_metadata :
                    /\ m.file_id = db.files[path].id
                    /\ m.format = DetectFileFormat(path, db.files[path].content)
                    /\ m.word_count = WordCount(db.files[path].content)

\* both request goroutines are in UploadFile for the same path with different
\* content and both have run their UpsertFile
BothUpserted ==
    /\ \A p \in Procs : procs[p].op = "upload" /\ procs[p].file # NoFile
    /\ procs[1].path = procs[2].path
    /\ procs[1].content # procs[2].content

\* C21: under concurrent uploads to the same path of the same workspace, in
\* every state, inside a transaction or committed, the path has at most one
\* file row (the rows of different paths never share an id, and two uploads
\* that both wrote the path in one transaction block wrote the same row), and
\* the row's digest, content and size come from a single upload: the digest
\* is the hash of the stored content and the size is its length.
C21_OneRowFromOneUpload ==
    /\ \A d \in {db, Committed} : \A path \in Paths :
          FileExists(d, path) =>
             /\ d.files[path].content \in {procs[p].content : p \in Procs}
                                          \cup {Bytes(20), Bytes(90)}
             /\ d.files[path].content_hash = Sha256Hex(d.files[path].content)
             /\ d.files[path].size_bytes = Len(d.files[path].content)
             /\ \A q \in Paths \ {path} : d.files[q].id # d.files[path].id
    /\ (BothUpserted /\ txStatus # "idle" /\ FileExists(db, procs[1].path)) =>
          db.files[procs[1].path] \in {procs[p].file : p \in Procs}

\* two uploads have written the same path one after the other inside their
\* transactions and the row is the one the later of them wrote
C21_Witness ==
    /\ BothUpserted
    /\ txStatus = "open"
    /\ procs[1].fileId = procs[2].fileId
    /\ db.files[procs[1].path] = procs[2].file
    /\ procs[1].pc = "U_CreateFileVersion"
    /\ procs[2].pc = "U_UpdateWorkspaceStorageUsed"

\* C22: every transaction begun by UploadFile or DeleteFile is committed or
\* rolled back by the time the call returns, on every exit path: when the call
\* has returned its Tx is closed and the session has no transaction open.
C22_NoTransactionLeftOpen ==
    LET pr == procs[1]
    IN (pr.pc = "done" /\ pr.op \in {"upload", "delete"}) =>
          /\ pr.txClosed
          /\ txStatus = "idle"
          /\ (pr.began /\ pr.ret # "ok") =>
                /\ db.files = pr.pre.files
                /\ Used(db) = Used(pr.pre)
                /\ db.file_versions = pr.pre.file_versions

\* an upload whose transaction a server error had aborted has returned through
\* an early error return
C22_Witness ==
    /\ Finished(1, "upload")
    /\ procs[1].began
    /\ procs[1].ret = "failed to update storage usage"
    /\ procs[1].faults = 1
    /\ FileExists(db, procs[1].path)

\* C23: after a successful upload of content c to path p, GetFileContent(p) by
\* the owner returns exactly c and GetFile(p) returns the metadata of that
\* upload (path, workspace, size = len(c)); after a successful delete of p both
\* return file not found; and until the next upload or delete a read changes
\* nothing and answers with the row then at the path.
C23_ReadsReturnTheUpload ==
    LET pr == procs[1]
        row == pr.pre.files[pr.path]
        info == FileInfo("w1", pr.path, row)
        read == /\ pr.pc = "done" /\ pr.op \in {"get", "content"}
                /\ pr.ws = "w1" /\ pr.user = "owner" /\ pr.faults = 0
    IN /\ (read /\ last.kind = "uploaded" /\ last.path = pr.path) =>
             /\ pr.ret = "ok"
             /\ row.content = last.content
             /\ info.file_path = last.path
             /\ info.workspace_id = "w1"
             /\ info.size_bytes = Len(last.content)
             /\ info.content_hash = Sha256Hex(last.content)
       /\ (read /\ last.kind = "deleted" /\ last.path = pr.path) =>
             /\ pr.ret = "file not found"
             /\ pr.data = NoData
       /\ read =>
             /\ db = pr.pre
             /\ txStatus = "idle"
             /\ pr.ret = IF FileExists(pr.pre, pr.path) THEN "ok" ELSE "file not found"
             /\ pr.data = IF ~FileExists(pr.pre, pr.path) THEN NoData
                          ELSE IF pr.op = "content" THEN <<info, row.content>>
                          ELSE <<info>>

\* the owner has read the content of a path right after an upload replaced
\* the file that was there
C23_Witness ==
    /\ Finished(1, "content")
    /\ procs[1].user = "owner"
    /\ procs[1].ret = "ok"
    /\ last.kind = "uploaded"
    /\ last.path = procs[1].path
    /\ procs[1].data[2] = last.content
    /\ \E v \in db.file_versions :
          v.file_id = procs[1].data[1].id /\ v.content # last.content

\* C24: ListFiles by the owner returns exactly the files currently in the
\* workspace, one entry per path and none for a deleted file (an empty list
\* for an empty workspace), ordered by file path ascending, and changes
\* nothing.
C24_ListIsTheWorkspaceInPathOrder ==
    LET pr == procs[1]
        rows == pr.data
        stored == {q \in Paths : FileExists(pr.pre, q)}
    IN (/\ Finished(1, "list")
        /\ pr.ws = "w1" /\ pr.user = "owner" /\ pr.faults = 0) =>
          /\ pr.ret = "ok"
          /\ db = pr.pre
          /\ Len(rows) = Cardinality(stored)
          /\ \A q \in stored :
                \E i \in 1..Len(rows) : rows[i] = FileInfo("w1", q, pr.pre.files[q])
          /\ \A i, j \in 1..Len(rows) :
                (i < j) => BytesBefore(PathBytes(rows[i].file_path),
                                       PathBytes(rows[j].file_path))

\* the listing has two entries, the later path having been uploaded first
\* (it holds the row with the smaller id)
C24_Witness ==
    /\ Finished(1, "list")
    /\ procs[1].ret = "ok"
    /\ Len(procs[1].data) = 2
    /\ procs[1].data[1].id > procs[1].data[2].id

\* the format that C25 states for each path
StatedFormat(filePath) ==
    IF filePath \in {"test.md", "document.markdown", "TEST.MD", "a.Markdown"}
    THEN "markdown"
    ELSE IF filePath \in {"notes.org", "Notes.Org", ".org"} THEN "orgmode"
    ELSE "plaintext"

\* C25: DetectFileFormat depends only on the path's final extension, compared
\* case-insensitively: .md and .markdown give markdown, .org gives orgmode,
\* every other extension or no extension gives plaintext, and the content
\* never affects the result.
C25_FormatFromExtension ==
    LET pr == procs[1]
    IN Finished(1, "detect") =>
          /\ pr.data = <<StatedFormat(pr.path)>>
          /\ \A c \in FormatContents :
                DetectFileFormat(pr.path, c) = pr.data[1]
          /\ \A q \in FormatPaths :
                (ToLower(FilepathExt(PathBytes(q))) =
                    ToLower(FilepathExt(PathBytes(pr.path)))) =>
                DetectFileFormat(q, pr.content) = pr.data[1]

\* an upper-case extension on content that looks like another format
C25_Witness ==
    /\ Finished(1, "detect")
    /\ procs[1].path = "TEST.MD"
    /\ procs[1].content = <<42, 32, 120>>
    /\ procs[1].data = <<"markdown">>

\* the two request goroutines have served the same request of the same
\* principal, one on the workspace of another owner, one on a workspace id
\* that does not exist
SameRequestOnForeignAndMissing ==
    /\ \A p \in Procs : procs[p].pc = "done" /\ procs[p].user = "other"
    /\ procs[1].op = procs[2].op
    /\ procs[1].path = procs[2].path
    /\ procs[1].content = procs[2].content
    /\ procs[1].ws = "w1"
    /\ procs[2].ws = "w0"

\* C26: at the HTTP boundary the response (status code and body) to a request
\* on a workspace owned by another principal is identical to the response to
\* the same request on a workspace id that does not exist, for the workspace
\* read endpoints and the file get, list, upload and delete endpoints.
C26_DeniedLooksLikeNotFound ==
    SameRequestOnForeignAndMissing =>
        HttpResponse(procs[1]) = HttpResponse(procs[2])

\* the version rows of the file with the given id
VersionRows(d, fileId) == {v \in d.file_versions : v.file_id = fileId}

\* C27: no operation updates or removes an existing file_versions row, except
\* that deleting a file removes all of that file's version rows by cascade:
\* from one durable state to the next every version row is kept as it is
\* unless its file is gone, and no version row is left without its file.
C27_VersionRowsOnlyCascade ==
    [][/\ \A v \in Committed.file_versions :
             \/ v \in Committed'.file_versions
             \/ /\ \A q \in Paths : Committed'.files[q].id # v.file_id
                /\ VersionRows(Committed', v.file_id) = {}
       /\ \A v \in Committed'.file_versions :
             \E q \in Paths : Committed'.files[q].id = v.file_id]_vars

\* a delete has removed a file together with its version row while the
\* version row of the other file, written before it, is still there
C27_Witness ==
    /\ Finished(1, "delete")
    /\ procs[1].ret = "ok"
    /\ Cardinality(procs[1].pre.file_versions) = 2
    /\ Cardinality(db.file_versions) = 1
    /\ db.file_versions \subseteq procs[1].pre.file_versions

\* C28: every upload writes its version row with version number 1, so in
\* every reachable state, inside a transaction or committed, each file has at
\* most one version row, numbered 1, however often the path was uploaded.
C28_OneVersionNumberedOne ==
    \A d \in {db, Committed} :
        /\ \A v \in d.file_versions : v.version_number = 1
        /\ \A q \in Paths : Cardinality(VersionRows(d, d.files[q].id)) <= 1

\* the second upload to a path has committed new content and the file still
\* has the one version row, which holds the content of the first upload
C28_Witness ==
    /\ SecondUpload
    /\ procs[1].ret = "ok"
    /\ procs[1].versionErr
    /\ db.files[procs[1].path].content # procs[1].pre.files[procs[1].path].content
    /\ VersionRows(db, procs[1].fileId) = VersionRows(procs[1].pre, procs[1].fileId)
    /\ Cardinality(VersionRows(db, procs[1].fileId)) = 1

\* C29: the durable status of an audit row only ever moves from "pending" to
\* "success" or from "pending" to "failed"; once it is "success" or "failed"
\* no later step of any operation changes the row, and no row is removed.
C29_AuditStatusFinal ==
    [][\A o \in Committed.sync_operations :
          \/ o \in Committed'.sync_operations
          \/ /\ o.status = "pending"
             /\ \E n \in Committed'.sync_operations :
                   /\ n.id = o.id
                   /\ n.status \in {"success", "failed"}
                   /\ n.workspace_id = o.workspace_id
                   /\ n.operation_type = o.operation_type
             /\ Cardinality(AuditRows(Committed', o.id)) = 1]_vars

\* a later upload has been marked "success" while the row of an earlier
\* upload is durably "failed"
C29_Witness ==
    /\ txStatus = "idle"
    /\ \E o \in db.sync_operations, n \in db.sync_operations :
          /\ o.id < n.id
          /\ o.status = "failed"
          /\ n.status = "success"

\* C30: a user never owns more workspaces than their tier's maximum (1 for
\* free, 10 for premium), and CreateWorkspace fails with the workspace-limit
\* error whenever the user already owns that many, also when several
\* CreateWorkspace calls for the same user run concurrently.
C30_WorkspacesWithinTier ==
    /\ \A u \in Accounts :
          (GetMaxWorkspaces(UserTier(u)) > 0) =>
             Cardinality(WorkspacesByUser(db, u)) <= GetMaxWorkspaces(UserTier(u))
    /\ \A p \in Procs :
          (/\ Finished(p, "create")
           /\ GetMaxWorkspaces(procs[p].tier) > 0
           /\ procs[p].existing >= GetMaxWorkspaces(procs[p].tier)) =>
             procs[p].ret = "workspace limit reached"

\* the errors of DeleteFile that come from inside its transaction
DeleteTxErrors ==
    {"failed to delete file", "failed to update storage usage",
     "failed to commit transaction"}

\* C31: if the row delete, the usage update or the commit fails inside
\* DeleteFile, the call returns an error and the file rows and
\* storage_used_bytes are as before the call; a DeleteFile that has returned
\* has either removed the row and decremented the usage or done neither.
C31_DeleteAllOrNothing ==
    LET pr == procs[1]
    IN /\ (Finished(1, "delete") /\ pr.ret \in DeleteTxErrors) =>
             /\ txStatus = "idle"
             /\ db.files = pr.pre.files
             /\ Used(db) = Used(pr.pre)
       /\ (Finished(1, "delete") /\ pr.began) =>
             \/ pr.ret \in DeleteTxErrors /\ db = pr.pre
             \/ /\ pr.ret = "ok"
                /\ ~FileExists(db, pr.path)
                /\ Used(db) = Used(pr.pre) - pr.pre.files[pr.path].size_bytes

\* the usage update of a delete failed after the row was deleted inside the
\* transaction, and the file and the usage are there again
C31_Witness ==
    /\ Finished(1, "delete")
    /\ procs[1].ret = "failed to update storage usage"
    /\ procs[1].queries = 5
    /\ FileExists(db, procs[1].path)
    /\ Used(db) > 0

C33_LimitFixedNewWorkspaceEmpty ==
    [][/\ \A w \in DOMAIN db.workspaces :
             /\ w \in DOMAIN db'.workspaces
             /\ db'.workspaces[w].storage_limit_bytes =
                   db.workspaces[w].storage_limit_bytes
             /\ db'.workspaces[w].user_id = db.workspaces[w].user_id
       /\ \A w \in DOMAIN db'.workspaces \ DOMAIN db.workspaces :
             /\ db'.workspaces[w].storage_used_bytes = 0
             /\ db'.workspaces[w].storage_limit_bytes =
                   GetStorageLimit(UserTier(db'.workspaces[w].user_id))
             /\ w # "w1"]_vars

\* a premium account has created its second workspace while the owner's
\* workspace holds a file
C33_Witness ==
    /\ Finished(1, "create")
    /\ procs[1].ret = "ok"
    /\ Cardinality(WorkspacesByUser(db, "pro")) = 2
    /\ db.workspaces[procs[1].ws].storage_used_bytes = 0
    /\ db.workspaces[procs[1].ws].storage_limit_bytes = GetStorageLimit("premium")
    /\ Used(db) > 0
    /\ Limit(db) = GetStorageLimit("free")

\* C34: the existing-file size subtracted in the quota precheck is 0 only when
\* no file exists at the path; whenever a file exists its size is subtracted,
\* also when the lookup of the existing file returns an error, so a successful
\* overwrite leaves storage_used_bytes at the value before it minus the old
\* size plus the new size.
C34_ExistingSizeSubtracted ==
    LET pr == procs[1]
        before == pr.pre.files[pr.path]
    IN /\ (pr.op = "upload" /\ pr.queries >= 3) =>
             pr.curSize = before.size_bytes
       /\ (Finished(1, "upload") /\ pr.ret = "ok") =>
             Used(db) = Used(pr.pre) - before.size_bytes + Len(pr.content)

\* the media type that C35 states for a path, from the extension in lower case
StatedMimeType(filePath) ==
    LET ext == ToLower(FilepathExt(PathBytes(filePath)))
    IN IF ext \in {<<46, 109, 100>>, <<46, 109, 97, 114, 107, 100, 111, 119, 110>>}
       THEN "text/markdown"
       ELSE IF ext = <<46, 111, 114, 103>> THEN "text/org"
       ELSE IF ext = <<46, 116, 120, 116>> THEN "text/plain"
       ELSE IF ext # <<>> /\ TypeByExtension(ext) # "" THEN TypeByExtension(ext)
       ELSE "text/plain"

\* C35: the media type of an upload depends only on the path's extension,
\* compared case-insensitively: .md and .markdown give text/markdown, .org
\* gives text/org, .txt gives text/plain, any other extension gives the type
\* of the generic extension table when it has one and text/plain otherwise,
\* as does a path without extension; the content never affects the result.
C35_MimeTypeFromExtension ==
    LET pr == procs[1]
    IN Finished(1, "mime") =>
          /\ pr.data = <<StatedMimeType(pr.path)>>
          /\ \A c \in FormatContents :
                detectMimeType(pr.path, c) = pr.data[1]
          /\ \A q \in FormatPaths :
                (ToLower(FilepathExt(PathBytes(q))) =
                    ToLower(FilepathExt(PathBytes(pr.path)))) =>
                detectMimeType(q, pr.content) = pr.data[1]

\* an upper-case extension of the generic table on content that looks like
\* Markdown
C35_Witness ==
    /\ Finished(1, "mime")
    /\ procs[1].path = "page.HTML"
    /\ procs[1].content = <<35, 32, 120>>
    /\ procs[1].data = <<"text/html; charset=utf-8">>

\* the maximum that C36 states for a tier
StatedMaxWorkspaces(tier) ==
    IF tier = "premium" THEN 10 ELSE IF tier = "enterprise" THEN -1 ELSE 1

\* C36: GetMaxWorkspaces returns 1 for free, 10 for premium, -1 (unlimited)
\* for enterprise and 1 for any unrecognized tier; CreateWorkspace refuses
\* with the workspace-limit error only a user of a bounded tier who owns at
\* least that many workspaces, and never an enterprise user, whose call
\* succeeds whenever its statements do.
C36_MaxWorkspacesByTier ==
    \A p \in Procs :
        LET pr == procs[p]
        IN (pr.op = "create") =>
              /\ GetMaxWorkspaces(pr.tier) = StatedMaxWorkspaces(pr.tier)
              /\ (pr.ret = "workspace limit reached") =>
                    /\ pr.tier # "enterprise"
                    /\ pr.existing >= StatedMaxWorkspaces(pr.tier)
              /\ (pr.pc = "done" /\ pr.tier = "enterprise" /\ pr.faults = 0) =>
                    pr.ret = "ok"

\* an enterprise user who owned two workspaces has created one more, and a
\* caller of an unrecognized tier who owns one workspace has been refused
C36_Witness ==
    /\ Finished(1, "create")
    /\ procs[1].tier = "enterprise"
    /\ procs[1].existing >= 2
    /\ procs[1].ret = "ok"
    /\ Finished(2, "create")
    /\ procs[2].tier = "invalid"
    /\ procs[2].existing = 1
    /\ procs[2].ret = "workspace limit reached"

\* the device codes handed out so far
HandedOut == {DeviceCodes[i] : i \in 1..(nextCode - 1)}

\* the step is a poll of the device-auth endpoint
PollStep == polled'.n = polled.n + 1

\* C37: a device-auth session leaves the pending map only by a poll made after
\* its expiry. A poll of a code in the map at or before its expiry answers
\* pending and keeps the session; the first poll after the expiry answers
\* expired and removes it; a poll of a code that is not in the map, unknown or
\* removed, answers invalid device code; and a code that was handed out and
\* has left the map does not come back.
C37_SessionLeavesByExpiredPoll ==
    [][/\ \A c \in DOMAIN pendingAuth \ DOMAIN pendingAuth' :
             /\ PollStep
             /\ polled'.code = c
             /\ polled'.answer = "Device code expired"
             /\ now > pendingAuth[c]
       /\ \A c \in DOMAIN pendingAuth \cap DOMAIN pendingAuth' :
             pendingAuth'[c] = pendingAuth[c]
       /\ \A c \in HandedOut \ DOMAIN pendingAuth : c \notin DOMAIN pendingAuth'
       /\ (PollStep /\ polled'.code # "") =>
             LET c == polled'.code
             IN IF c \notin DOMAIN pendingAuth
                THEN polled'.answer = "Invalid device code"
                ELSE IF now > pendingAuth[c]
                THEN polled'.answer = "Device code expired"
                     /\ c \notin DOMAIN pendingAuth'
                ELSE polled'.answer = "pending"
                     /\ c \in DOMAIN pendingAuth']_vars

\* a code that was handed out and removed on its expiry is polled again and
\* answered as invalid while a later session is still pending
C37_Witness ==
    /\ polled.code = "d1"
    /\ polled.answer = "Invalid device code"
    /\ "d1" \in HandedOut
    /\ "d2" \in DOMAIN pendingAuth
    /\ now <= pendingAuth["d2"]

\* C38: a token returned by the OAuth callback authenticates: the hash under
\* which generateAPIToken stores it equals the hash that RequireAuth computes
\* for the same token string, and a request carrying it as Bearer credential
\* passes RequireAuth as the user it was issued to.
C38_IssuedTokenAuthenticates ==
    \A i \in issued :
        /\ hasher(i.token) = Sha256Hex(i.token)
        /\ (authed.header = BearerPrefix \o i.token) =>
              /\ authed.status = 200
              /\ authed.user_id = i.user_id

\* C39: after any set of concurrently interleaved uploads and deletes on one
\* workspace has run to completion, storage_used_bytes equals the sum of the
\* sizes of the files then in the workspace.
C39_QuiescentUsedIsSumOfSizes ==
    (txStatus = "idle" /\ \A p \in Procs : procs[p].pc \in {"idle", "done"}) =>
        db.workspaces["w1"].storage_used_bytes = ActualStorageUsed(db)

\* C40: under any interleaving of concurrent uploads to one workspace, with no
\* deletes, storage_used_bytes changes only by the usage update of an upload,
\* which writes the projected value of its own precheck, or by the end of a
\* transaction block that puts an earlier value back; every value it takes is
\* at most storage_limit_bytes.
C40_UploadWritesWithinLimit ==
    [][/\ Used(db') <= Limit(db')
       /\ (Used(db') # Used(db)) =>
             \/ \E p \in Procs :
                   /\ procs[p].pc = "U_UpdateWorkspaceStorageUsed"
                   /\ procs'[p].pc = "U_CreateFileVersion"
                   /\ Used(db') = procs[p].newUsage
                   /\ procs[p].newUsage <= procs[p].limit
             \/ /\ txStatus # "idle"
                /\ txStatus' = "idle"
                /\ Used(db') = Used(txSnap)]_vars

\* two uploads that read the same usage have both written their projected
\* value: the files of the session add up to more than the limit, the usage
\* on record does not
C40_Witness ==
    /\ \A p \in Procs : procs[p].op = "upload"
    /\ procs[1].pc = "U_Commit"
    /\ procs[2].pc = "U_CreateFileVersion"
    /\ procs[1].used = procs[2].used
    /\ Used(db) = procs[2].newUsage
    /\ ActualStorageUsed(db) > Limit(db)

====
